---- MODULE Spec2Model ----
(***************************************************************************)
(* Model of the grid trading engine of src/services/grid_engine.py:       *)
(* AccountQueue, LevelManager, RiskZoneManager and GridEngine with its     *)
(* order-fill state machine.  The exchange collaborator is the            *)
(* environment: every call into it answers nondeterministically (a value,  *)
(* a refusal or a raised error).  Python floats are modelled as exact     *)
(* rationals [n, d]; quantities rounded by the "%.3f" format are          *)
(* rationals with denominator dividing 1000.                              *)
(***************************************************************************)
EXTENDS Integers, Sequences, FiniteSets, TLC

(***************************************************************************)
(* Static configuration (the `config` module read by grid_engine.py).     *)
(***************************************************************************)
ACCOUNT_IDS == <<"acc1", "acc2">>
SYMBOLS == <<"BTCUSDT">>
GRID_LEVELS == << <<90, 100>> >>
OVERSOLD_ZONE_BOUNDARIES == << <<85, 95>> >>
OVERBOUGHT_ZONE_BOUNDARIES == << <<105, 115>> >>
OVERSOLD_ZONE_LEVERAGE == 2
NEUTRAL_ZONE_LEVERAGE == 1
OVERBOUGHT_ZONE_LEVERAGE == 1
OVERSOLD_ZONE_VOLUME_USDT == 180
NEUTRAL_ZONE_VOLUME_USDT == 100
OVERBOUGHT_ZONE_VOLUME_USDT == 50
LEVEL_ACTIVATION_THRESHOLD == [n |-> 1, d |-> 100]
AVERAGING_PRICE_DROP_PERCENT == 10
AVERAGING_MULTIPLIER == 2
ProfitCloseModes == {"level", "breakeven"}

(***************************************************************************)
(* Bounds of the model and the answers the exchange can give.             *)
(***************************************************************************)
MaxOrderId == 5
BalanceVals == {100, 150}
PriceVals == {95, 100, 101}

Accounts == {ACCOUNT_IDS[i] : i \in DOMAIN ACCOUNT_IDS}
Symbols == {SYMBOLS[i] : i \in DOMAIN SYMBOLS}
NoAccount == "None"
NoPosition == [none |-> TRUE]
NoOrderId == 0

(***************************************************************************)
(* Exact rational arithmetic standing for Python float arithmetic.        *)
(***************************************************************************)
RECURSIVE GCD(_, _)
GCD(a, b) == IF b = 0 THEN a ELSE GCD(b, a % b)

Abs(x) == IF x < 0 THEN -x ELSE x

Rat(n, d) ==
    LET g == GCD(Abs(n), Abs(d))
        sgn == IF d < 0 THEN -1 ELSE 1
    IN  [n |-> sgn * (n \div g), d |-> sgn * (d \div g)]

R(x) == [n |-> x, d |-> 1]
RatAdd(a, b) == Rat(a.n * b.d + b.n * a.d, a.d * b.d)
RatSub(a, b) == Rat(a.n * b.d - b.n * a.d, a.d * b.d)
RatMul(a, b) == Rat(a.n * b.n, a.d * b.d)
RatDiv(a, b) == Rat(a.n * b.d, a.d * b.n)
RatLE(a, b) == a.n * b.d <= b.n * a.d
RatLT(a, b) == a.n * b.d < b.n * a.d
RatAbs(a) == [n |-> Abs(a.n), d |-> a.d]
RatIsZero(a) == a.n = 0

\* float(f"{x:.3f}"): x rounded to the nearest multiple of 1/1000 (ties to
\* the even neighbour, as the format does on an exactly representable tie).
Round3(x) ==
    LET num == Abs(x.n) * 1000
        k == num \div x.d
        rem == num % x.d
        up == (2 * rem > x.d) \/ (2 * rem = x.d /\ k % 2 = 1)
        m == IF up THEN k + 1 ELSE k
    IN  Rat(IF x.n < 0 THEN -m ELSE m, 1000)

(***************************************************************************)
(* Sequence helpers.                                                       *)
(***************************************************************************)
Range(s) == {s[i] : i \in DOMAIN s}

RemoveAt(s, i) == [j \in 1..(Len(s) - 1) |-> IF j < i THEN s[j] ELSE s[j + 1]]

\* list.remove(x): drops the first occurrence of x.
RemoveFirst(s, x) ==
    IF x \in Range(s)
    THEN RemoveAt(s, CHOOSE i \in DOMAIN s : s[i] = x /\ \A j \in 1..(i - 1) : s[j] # x)
    ELSE s

Count(s, x) == Cardinality({i \in DOMAIN s : s[i] = x})

\* dict.pop(k, None)
Pop(f, k) == [x \in (DOMAIN f) \ {k} |-> f[x]]

\* dict[k] = v
Put(f, k, v) == [x \in (DOMAIN f) \cup {k} |-> IF x = k THEN v ELSE f[x]]

EmptyMap == [x \in {} |-> 0]

VARIABLES
    accounts,               \* AccountQueue.accounts: id -> TradingAccount
    long_queue,             \* AccountQueue.long_queue: the working set, in order
    levels,                 \* LevelManager.levels: symbol -> price -> GridLevel
    current_prices,         \* state["current_prices"]: symbol -> price (0: absent)
    active_orders,          \* state["active_orders"]: Orders in insertion order
    order_account_mapping,  \* state["order_account_mapping"]: order id -> account id
    exchange_manager,       \* TRUE once set_exchange_manager attached a collaborator
    PROFIT_CLOSE_MODE,      \* config.PROFIT_CLOSE_MODE, fixed at start-up
    next_order_id,          \* the exchange's next fresh order id
    folded,                 \* observer: per account, the fills folded into its position
    last_op,                \* observer: the last completed operation and its outcome
    trace,                  \* observer: the calls made during the last operation
    is_running,             \* GridBotMain.is_running
    telegram_bot,           \* TRUE when GridBotMain.telegram_bot is set
    main_pc,                \* the await at which the main task is suspended
    shutdown_pc,            \* the position of the signal handler's task
    iterations,             \* observer: iterations of the main loop begun so far
    errors,                 \* observer: iterations that ended in the except clause
    call,                   \* a call of a pure function: its name and arguments
    result,                 \* what the call returned
    request,                \* the webhook request being answered
    response,               \* the status code and body answered to it
    published               \* the events handed to the transport's publish

engine_vars == <<accounts, long_queue, levels, current_prices, active_orders,
                 order_account_mapping, exchange_manager, PROFIT_CLOSE_MODE,
                 next_order_id, folded, last_op, trace>>

main_vars == <<is_running, telegram_bot, main_pc, shutdown_pc, iterations, errors>>

call_vars == <<call, result>>

webhook_vars == <<request, response, published>>

vars == <<engine_vars, main_vars, call_vars, webhook_vars>>


(***************************************************************************)
(* The engine state threaded through the operations of one handler.       *)
(* `raised` is TRUE once an exception is propagating, `ret` holds the      *)
(* value returned by the last call.                                        *)
(***************************************************************************)
EngineState ==
    [accounts |-> accounts, long_queue |-> long_queue, levels |-> levels,
     current_prices |-> current_prices, active_orders |-> active_orders,
     order_account_mapping |-> order_account_mapping,
     next_order_id |-> next_order_id, folded |-> folded,
     trace |-> <<>>, raised |-> FALSE, ret |-> 0]

\* Sequential composition: run F on every outcome of S that did not raise.
Then(S, F(_)) == UNION {IF t.raised THEN {t} ELSE F(t) : t \in S}

Raise(s) == [s EXCEPT !.raised = TRUE]
Return(s, v) == [s EXCEPT !.ret = v]
Log(s, e) == [s EXCEPT !.trace = Append(@, e)]

(***************************************************************************)
(* GridLevel                                                               *)
(***************************************************************************)
GridLevel(price) ==
    [price |-> price, max_positions |-> 1, is_active_long |-> FALSE, positions_count |-> 0]

\* A threshold check that leaves the boundary out.
check_activation_threshold_strict(level, current_price, threshold) ==
    LET deviation == RatDiv(RatAbs(RatSub(current_price, R(level.price))), R(level.price))
    IN  RatLT(threshold, deviation)

check_activation_threshold(level, current_price, threshold) ==
    LET deviation == RatDiv(RatAbs(RatSub(current_price, R(level.price))), R(level.price))
    IN  RatLE(threshold, deviation)

can_open_position(level) == level.positions_count < level.max_positions

\* An open_position that counts only while the level has capacity.
Level_open_position_guarded(level) ==
    IF can_open_position(level) THEN [level EXCEPT !.positions_count = @ + 1] ELSE level

Level_open_position(level) == [level EXCEPT !.positions_count = @ + 1]

\* A close_position that leaves the count as it is.
Level_close_position_skipped(level) == level

Level_close_position(level) ==
    IF level.positions_count > 0 THEN [level EXCEPT !.positions_count = @ - 1] ELSE level

(***************************************************************************)
(* Position                                                                *)
(***************************************************************************)
Position(symbol, quantity, entry_price, level_price) ==
    [symbol |-> symbol, quantity |-> quantity, entry_price |-> entry_price,
     level_price |-> level_price, close_order_id |-> NoOrderId,
     averaging_order_id |-> NoOrderId, leverage |-> 1, risk_zone |-> "",
     total_quantity |-> quantity, average_entry_price |-> entry_price,
     is_averaged |-> FALSE, averaging_failed_insufficient_balance |-> FALSE,
     last_averaging_alert_roi |-> NoPosition]

calculate_breakeven_price(position) == position.average_entry_price

calculate_roi(position, price) ==
    IF RatIsZero(position.average_entry_price)
    THEN R(0)
    ELSE RatDiv(RatSub(price, position.average_entry_price), position.average_entry_price)

\* add_averaging taking the plain mean of the two prices.
add_averaging_unweighted(position, qty, price) ==
    [position EXCEPT !.total_quantity = RatAdd(position.total_quantity, qty),
                     !.average_entry_price =
                         RatDiv(RatAdd(position.average_entry_price, price), R(2)),
                     !.is_averaged = TRUE]

add_averaging(position, qty, price) ==
    LET total_cost == RatAdd(RatMul(position.average_entry_price, position.total_quantity),
                             RatMul(price, qty))
        total_quantity == RatAdd(position.total_quantity, qty)
    IN  [position EXCEPT !.total_quantity = total_quantity,
                         !.average_entry_price = RatDiv(total_cost, total_quantity),
                         !.is_averaged = TRUE]

(***************************************************************************)
(* Order                                                                   *)
(***************************************************************************)
Order(order_id, symbol, side, order_type, quantity, price, purpose, account_id) ==
    [order_id |-> order_id, symbol |-> symbol, side |-> side, order_type |-> order_type,
     quantity |-> quantity, price |-> price, purpose |-> purpose,
     account_id |-> account_id, status |-> "Pending", level_price |-> 0]

mark_filled(order) == [order EXCEPT !.status = "Filled"]

(***************************************************************************)
(* TradingAccount                                                          *)
(***************************************************************************)
TradingAccount(account_id) ==
    [account_id |-> account_id, balance |-> 0, status |-> "FREE",
     long_usdt_position |-> NoPosition]

has_free_slot(account) == account.long_usdt_position = NoPosition

Account_open_position(account, position) ==
    [account EXCEPT !.long_usdt_position = position, !.status = "BUSY"]

\* close_position that forgets to reset the status.
Account_close_position_keeps_status(account) ==
    [account EXCEPT !.long_usdt_position = NoPosition]

Account_close_position(account) ==
    [account EXCEPT !.long_usdt_position = NoPosition, !.status = "FREE"]

(***************************************************************************)
(* AccountQueue                                                            *)
(***************************************************************************)
AccountQueue_accounts == [a \in Accounts |-> TradingAccount(a)]

AccountQueue_long_queue == ACCOUNT_IDS

\* max(suitable, key=balance): the first element of maximal balance.
MaxByBalance(accts, suitable) ==
    suitable[CHOOSE i \in DOMAIN suitable :
                /\ \A j \in DOMAIN suitable : accts[suitable[j]].balance <= accts[suitable[i]].balance
                /\ \A j \in 1..(i - 1) : accts[suitable[j]].balance < accts[suitable[i]].balance]

\* get_next_free_account taking the first suitable account, not the richest.
get_next_free_account_first(s, required_balance) ==
    LET suitable == SelectSeq(s.long_queue,
                       LAMBDA a : /\ has_free_slot(s.accounts[a])
                                  /\ RatLE(required_balance, R(s.accounts[a].balance)))
    IN  IF suitable = <<>>
        THEN Return(Log(s, <<"get_next_free_account", required_balance, NoAccount>>), NoAccount)
        ELSE Return(Log([s EXCEPT !.long_queue = RemoveFirst(@, Head(suitable))],
                        <<"get_next_free_account", required_balance, Head(suitable)>>),
                    Head(suitable))

\* get_next_free_account without the balance filter.
get_next_free_account_any_balance(s, required_balance) ==
    LET suitable == SelectSeq(s.long_queue, LAMBDA a : has_free_slot(s.accounts[a]))
    IN  IF suitable = <<>>
        THEN Return(Log(s, <<"get_next_free_account", required_balance, NoAccount>>), NoAccount)
        ELSE LET best == MaxByBalance(s.accounts, suitable)
             IN  Return(Log([s EXCEPT !.long_queue = RemoveFirst(@, best)],
                            <<"get_next_free_account", required_balance, best>>), best)

\* get_next_free_account leaving the chosen account in the working set.
get_next_free_account_kept(s, required_balance) ==
    LET suitable == SelectSeq(s.long_queue,
                       LAMBDA a : /\ has_free_slot(s.accounts[a])
                                  /\ RatLE(required_balance, R(s.accounts[a].balance)))
    IN  IF suitable = <<>>
        THEN Return(Log(s, <<"get_next_free_account", required_balance, NoAccount>>), NoAccount)
        ELSE LET best == MaxByBalance(s.accounts, suitable)
             IN  Return(Log(s, <<"get_next_free_account", required_balance, best>>), best)

get_next_free_account(s, required_balance) ==
    LET suitable == SelectSeq(s.long_queue,
                       LAMBDA a : /\ has_free_slot(s.accounts[a])
                                  /\ RatLE(required_balance, R(s.accounts[a].balance)))
    IN  IF suitable = <<>>
        THEN Return(Log(s, <<"get_next_free_account", required_balance, NoAccount>>), NoAccount)
        ELSE LET best == MaxByBalance(s.accounts, suitable)
             IN  Return(Log([s EXCEPT !.long_queue = RemoveFirst(@, best)],
                            <<"get_next_free_account", required_balance, best>>), best)

\* return_account_to_queue that never appends.
return_account_to_queue_dropped(s, account) ==
    Log(s, <<"return_account_to_queue", account>>)

\* return_account_to_queue without the membership test.
return_account_to_queue_always(s, account) ==
    [Log(s, <<"return_account_to_queue", account>>) EXCEPT !.long_queue = Append(@, account)]

return_account_to_queue(s, account) ==
    LET t == Log(s, <<"return_account_to_queue", account>>)
    IN  IF account \notin Range(s.long_queue)
        THEN [t EXCEPT !.long_queue = Append(@, account)]
        ELSE t

(***************************************************************************)
(* LevelManager                                                            *)
(***************************************************************************)
SymbolIndex(symbol) == CHOOSE i \in DOMAIN SYMBOLS : SYMBOLS[i] = symbol

LevelPrices(symbol) == Range(GRID_LEVELS[SymbolIndex(symbol)])

LevelManager_levels ==
    [symbol \in Symbols |-> [price \in LevelPrices(symbol) |-> GridLevel(price)]]

initialize_levels(lv, symbol, current_price) ==
    [lv EXCEPT ![symbol] =
        [price \in DOMAIN lv[symbol] |->
            [lv[symbol][price] EXCEPT !.is_active_long =
                check_activation_threshold(lv[symbol][price], current_price,
                                           LEVEL_ACTIVATION_THRESHOLD)]]]

\* A scan that also stops at a level equal to current_price.
get_next_level_price_inclusive(symbol, current_price) ==
    LET above == {p \in LevelPrices(symbol) : RatLE(current_price, R(p))}
    IN  IF above = {} THEN 0 ELSE CHOOSE p \in above : \A q \in above : p <= q

\* sorted(levels) scanned for the first price above current_price; 0: None.
get_next_level_price(symbol, current_price) ==
    LET above == {p \in LevelPrices(symbol) : RatLT(current_price, R(p))}
    IN  IF above = {} THEN 0 ELSE CHOOSE p \in above : \A q \in above : p <= q

\* levels[symbol].get(price): the key of the level, 0 when there is none.
get_level(symbol, price) ==
    IF price.d = 1 /\ price.n \in LevelPrices(symbol) THEN price.n ELSE 0

(***************************************************************************)
(* RiskZoneManager                                                         *)
(***************************************************************************)
SeqMax(s) == CHOOSE x \in Range(s) : \A y \in Range(s) : y <= x
SeqMin(s) == CHOOSE x \in Range(s) : \A y \in Range(s) : x <= y

symbol_zones ==
    [symbol \in Symbols |->
        [oversold_max |-> SeqMax(OVERSOLD_ZONE_BOUNDARIES[SymbolIndex(symbol)]),
         overbought_min |-> SeqMin(OVERBOUGHT_ZONE_BOUNDARIES[SymbolIndex(symbol)])]]

\* A zone lookup that leaves the oversold boundary out.
get_risk_zone_exclusive(symbol, price) ==
    IF symbol \notin DOMAIN symbol_zones THEN "NEUTRAL"
    ELSE IF RatLT(price, R(symbol_zones[symbol].oversold_max)) THEN "OVERSOLD"
    ELSE IF RatLE(R(symbol_zones[symbol].overbought_min), price) THEN "OVERBOUGHT"
    ELSE "NEUTRAL"

get_risk_zone(symbol, price) ==
    IF symbol \notin DOMAIN symbol_zones THEN "NEUTRAL"
    ELSE IF RatLE(price, R(symbol_zones[symbol].oversold_max)) THEN "OVERSOLD"
    ELSE IF RatLE(R(symbol_zones[symbol].overbought_min), price) THEN "OVERBOUGHT"
    ELSE "NEUTRAL"

get_leverage_for_zone(zone) ==
    IF zone = "OVERSOLD" THEN OVERSOLD_ZONE_LEVERAGE
    ELSE IF zone = "OVERBOUGHT" THEN OVERBOUGHT_ZONE_LEVERAGE
    ELSE NEUTRAL_ZONE_LEVERAGE

get_volume_usdt_for_zone(zone) ==
    IF zone = "OVERSOLD" THEN OVERSOLD_ZONE_VOLUME_USDT
    ELSE IF zone = "OVERBOUGHT" THEN OVERBOUGHT_ZONE_VOLUME_USDT
    ELSE NEUTRAL_ZONE_VOLUME_USDT

get_level_config(symbol, price) ==
    LET zone == get_risk_zone(symbol, price)
    IN  [risk_zone |-> zone, leverage |-> get_leverage_for_zone(zone),
         volume_usdt |-> get_volume_usdt_for_zone(zone)]


(***************************************************************************)
(* GridEngine: order placement and cancellation                           *)
(***************************************************************************)
calculate_quantity_from_usdt(usdt_amount, price) == Round3(RatDiv(usdt_amount, price))

\* state["active_orders"].pop(order_id, None)
PopOrder(orders, order_id) == SelectSeq(orders, LAMBDA o : o.order_id # order_id)

ActiveIds(orders) == {orders[i].order_id : i \in DOMAIN orders}

\* place_limit_order either raises (caught: None is returned) or answers a
\* fresh order id, which is then tracked in both maps.
place_order(s, account_id, symbol, side, quantity, price, purpose, level_price) ==
    LET rejected == Return(Log(s, <<"place_limit_order", account_id, purpose, NoOrderId>>), NoOrderId)
        order_id == s.next_order_id
        order == [Order(order_id, symbol, side, "Limit", quantity, price, purpose, account_id)
                    EXCEPT !.level_price = level_price]
        placed == Return(Log([s EXCEPT !.active_orders = Append(@, order),
                                       !.order_account_mapping = Put(@, order_id, account_id),
                                       !.next_order_id = @ + 1],
                             <<"place_limit_order", account_id, purpose, order_id>>), order_id)
    IN  {rejected} \cup (IF s.next_order_id <= MaxOrderId THEN {placed} ELSE {})

place_order_with_usdt_volume(s, account_id, symbol, side, usdt_volume, price, purpose, level_price) ==
    LET quantity == calculate_quantity_from_usdt(usdt_volume, price)
    IN  IF RatLE(quantity, R(0))
        THEN {Return(s, NoOrderId)}
        ELSE place_order(s, account_id, symbol, side, quantity, price, purpose, level_price)

\* cancel_order answers True or False or raises; after True the balance is
\* refreshed, and a failure of that refresh is swallowed by the same handler.
cancel_and_cleanup_order(s, order_id, symbol, account_id) ==
    LET cleaned(t) == [t EXCEPT !.active_orders = PopOrder(@, order_id),
                                !.order_account_mapping = Pop(@, order_id)]
        raised == Return(Log(s, <<"cancel_order", order_id, "raise">>), FALSE)
        failed == Return(cleaned(Log(s, <<"cancel_order", order_id, "False">>)), FALSE)
        ok == cleaned(Log(s, <<"cancel_order", order_id, "True">>))
        refreshed == {Return([ok EXCEPT !.accounts[account_id].balance = b], TRUE) : b \in BalanceVals}
        refresh_raised == Return(ok, FALSE)
    IN  {raised, failed, refresh_raised} \cup refreshed

\* The first account, in the order of the accounts dict, whose position
\* carries the order id in the field of that order type.
find_position_by_order(s, order_id, order_type) ==
    LET matches(a) ==
            /\ s.accounts[a].long_usdt_position # NoPosition
            /\ \/ order_type = "close" /\ s.accounts[a].long_usdt_position.close_order_id = order_id
               \/ order_type = "averaging" /\ s.accounts[a].long_usdt_position.averaging_order_id = order_id
        hits == SelectSeq(ACCOUNT_IDS, matches)
    IN  IF hits = <<>> THEN NoAccount ELSE Head(hits)

(***************************************************************************)
(* GridEngine: the placement cycle                                         *)
(***************************************************************************)
\* The exchange's capacity check: True, False, or a raised error that
\* propagates out of the caller.
can_place_order_on_account_with_position(s, account_id) ==
    {Return(Log(s, <<"can_place_order_on_account_with_position", account_id, "True">>), TRUE),
     Return(Log(s, <<"can_place_order_on_account_with_position", account_id, "False">>), FALSE),
     Raise(Log(s, <<"can_place_order_on_account_with_position", account_id, "raise">>))}

\* set_leverage_for_risk_zone changes no engine state.
set_leverage_for_risk_zone(s, account_id, symbol, leverage) == {s}

Distance(price, current_price) == Abs(price - current_price)

\* sorted() of the (distance, price) pairs, as the sequence of their prices.
RECURSIVE SortedByDistance(_, _)
SortedByDistance(prices, current_price) ==
    IF prices = {} THEN <<>>
    ELSE LET first == CHOOSE p \in prices : \A q \in prices :
                          \/ Distance(p, current_price) < Distance(q, current_price)
                          \/ Distance(p, current_price) = Distance(q, current_price) /\ p <= q
         IN  <<first>> \o SortedByDistance(prices \ {first}, current_price)

place_grid_order_for_level(s, symbol, price) ==
    LET level_cfg == get_level_config(symbol, R(price))
        required_balance == Rat(level_cfg.volume_usdt, level_cfg.leverage)
        acquired == get_next_free_account(s, required_balance)
        account == acquired.ret
    IN  IF account = NoAccount THEN {acquired}
        ELSE Then(can_place_order_on_account_with_position(acquired, account),
                  LAMBDA t : IF t.ret
                             THEN Then(set_leverage_for_risk_zone(t, account, symbol, level_cfg.leverage),
                                       LAMBDA u : place_order_with_usdt_volume(u, account, symbol, "Buy",
                                                      R(level_cfg.volume_usdt), R(price), "grid", price))
                             ELSE {t})

RECURSIVE place_grid_orders_levels(_, _, _)
place_grid_orders_levels(S, symbol, active) ==
    IF active = <<>> THEN S
    ELSE place_grid_orders_levels(
             Then(S, LAMBDA t : place_grid_order_for_level(t, symbol, Head(active))),
             symbol, Tail(active))

place_grid_orders_symbol(s, symbol) ==
    LET current_price == s.current_prices[symbol]
        symbol_levels == s.levels[symbol]
        active == {price \in DOMAIN symbol_levels :
                      symbol_levels[price].is_active_long /\ can_open_position(symbol_levels[price])}
    IN  IF active # {} /\ current_price = 0
        THEN {Raise(s)}
        ELSE place_grid_orders_levels({s}, symbol, SortedByDistance(active, current_price))

RECURSIVE place_grid_orders_symbols(_, _)
place_grid_orders_symbols(S, symbols) ==
    IF symbols = <<>> THEN S
    ELSE place_grid_orders_symbols(
             Then(S, LAMBDA t : place_grid_orders_symbol(t, Head(symbols))), Tail(symbols))

place_grid_orders(s) == place_grid_orders_symbols({s}, SYMBOLS)


(***************************************************************************)
(* GridEngine: follow-on orders of a position                              *)
(***************************************************************************)
PositionOf(s, account) == s.accounts[account].long_usdt_position

place_close_order(s, account) ==
    LET position == PositionOf(s, account)
        next_level == get_next_level_price(position.symbol, position.entry_price)
        close_price == IF PROFIT_CLOSE_MODE = "level"
                       THEN (IF next_level # 0 THEN R(next_level)
                             ELSE calculate_breakeven_price(position))
                       ELSE calculate_breakeven_price(position)
    IN  Then(place_order(s, account, position.symbol, "Sell", position.quantity,
                         close_price, "close", 0),
             LAMBDA t : IF t.ret # NoOrderId
                        THEN {[t EXCEPT !.accounts[account].long_usdt_position.close_order_id = t.ret]}
                        ELSE {t})

\* A place_averaging_order that ignores the capacity check and the balance.
place_averaging_order_unchecked(s, account) ==
    LET position == PositionOf(s, account)
        averaging_price == RatMul(position.entry_price,
                                  RatSub(R(1), Rat(AVERAGING_PRICE_DROP_PERCENT, 100)))
        pos_volume == RatMul(position.quantity, position.entry_price)
        averaging_volume == RatMul(pos_volume, R(AVERAGING_MULTIPLIER - 1))
        zone == get_risk_zone(position.symbol, averaging_price)
        leverage == get_leverage_for_zone(zone)
        required_balance == RatDiv(averaging_volume, R(leverage))
    IN  Then(can_place_order_on_account_with_position(s, account),
             LAMBDA t :
                IF FALSE
                THEN IF t.current_prices[position.symbol] = 0
                     THEN {Raise([t EXCEPT !.accounts[account].long_usdt_position
                                               .averaging_failed_insufficient_balance = TRUE])}
                     ELSE {[t EXCEPT !.accounts[account].long_usdt_position =
                              [@ EXCEPT !.averaging_failed_insufficient_balance = TRUE,
                                        !.last_averaging_alert_roi =
                                            RatMul(calculate_roi(position,
                                                       R(t.current_prices[position.symbol])), R(100))]]}
                ELSE Then(place_order_with_usdt_volume(t, account, position.symbol, "Buy",
                                                       averaging_volume, averaging_price,
                                                       "averaging", 0),
                          LAMBDA u : IF u.ret # NoOrderId
                                     THEN {[u EXCEPT !.accounts[account].long_usdt_position
                                                         .averaging_order_id = u.ret]}
                                     ELSE {u}))

place_averaging_order(s, account) ==
    LET position == PositionOf(s, account)
        averaging_price == RatMul(position.entry_price,
                                  RatSub(R(1), Rat(AVERAGING_PRICE_DROP_PERCENT, 100)))
        pos_volume == RatMul(position.quantity, position.entry_price)
        averaging_volume == RatMul(pos_volume, R(AVERAGING_MULTIPLIER - 1))
        zone == get_risk_zone(position.symbol, averaging_price)
        leverage == get_leverage_for_zone(zone)
        required_balance == RatDiv(averaging_volume, R(leverage))
    IN  Then(can_place_order_on_account_with_position(s, account),
             LAMBDA t :
                IF ~t.ret \/ RatLT(R(t.accounts[account].balance), required_balance)
                THEN IF t.current_prices[position.symbol] = 0
                     THEN {Raise([t EXCEPT !.accounts[account].long_usdt_position
                                               .averaging_failed_insufficient_balance = TRUE])}
                     ELSE {[t EXCEPT !.accounts[account].long_usdt_position =
                              [@ EXCEPT !.averaging_failed_insufficient_balance = TRUE,
                                        !.last_averaging_alert_roi =
                                            RatMul(calculate_roi(position,
                                                       R(t.current_prices[position.symbol])), R(100))]]}
                ELSE Then(place_order_with_usdt_volume(t, account, position.symbol, "Buy",
                                                       averaging_volume, averaging_price,
                                                       "averaging", 0),
                          LAMBDA u : IF u.ret # NoOrderId
                                     THEN {[u EXCEPT !.accounts[account].long_usdt_position
                                                         .averaging_order_id = u.ret]}
                                     ELSE {u}))

replace_grid_order(s, level_price, symbol) ==
    LET level == get_level(symbol, level_price)
    IN  IF level = 0 \/ ~can_open_position(s.levels[symbol][level])
        THEN {s}
        ELSE LET acquired == get_next_free_account(s, R(0))
                 account == acquired.ret
                 cfg == get_level_config(symbol, level_price)
             IN  IF account = NoAccount THEN {acquired}
                 ELSE place_order_with_usdt_volume(acquired, account, symbol, "Buy",
                          R(cfg.volume_usdt), level_price, "grid", level)

place_breakeven_close_order(s, account) ==
    LET position == PositionOf(s, account)
        breakeven == calculate_breakeven_price(position)
    IN  Then(place_order(s, account, position.symbol, "Sell", position.total_quantity,
                         breakeven, "close", 0),
             LAMBDA t : IF t.ret # NoOrderId
                        THEN {[t EXCEPT !.accounts[account].long_usdt_position.close_order_id = t.ret]}
                        ELSE {t})

place_new_grid_order_on_level(s, level_price, symbol) ==
    LET level == get_level(symbol, level_price)
    IN  IF level = 0 THEN {s}
        ELSE LET activated == [s EXCEPT !.levels[symbol][level].is_active_long = TRUE]
             IN  IF ~can_open_position(activated.levels[symbol][level])
                 THEN {activated}
                 ELSE LET acquired == get_next_free_account(activated, R(0))
                          account == acquired.ret
                          cfg == get_level_config(symbol, level_price)
                      IN  IF account = NoAccount THEN {acquired}
                          ELSE place_order_with_usdt_volume(acquired, account, symbol, "Buy",
                                   R(cfg.volume_usdt), level_price, "grid", level)

(***************************************************************************)
(* GridEngine: the fill handlers                                           *)
(***************************************************************************)
\* A grid-fill handler that does not look at the account's position.
handle_grid_order_fill_unguarded(s, order) ==
    LET account == order.account_id
    IN  IF account \notin DOMAIN s.accounts
        THEN {s}
        ELSE
        LET level_price == IF order.level_price # 0 THEN R(order.level_price) ELSE order.price
            level_cfg == get_level_config(order.symbol, order.price)
            position == [Position(order.symbol, order.quantity, order.price, level_price)
                            EXCEPT !.leverage = level_cfg.leverage,
                                   !.risk_zone = level_cfg.risk_zone]
            level == IF order.level_price # 0 THEN get_level(order.symbol, R(order.level_price)) ELSE 0
            opened == [s EXCEPT !.accounts[account] = Account_open_position(@, position),
                                !.folded[account] = <<[qty |-> order.quantity, price |-> order.price]>>]
            counted == IF level # 0
                       THEN [opened EXCEPT !.levels[order.symbol][level] = Level_open_position(@)]
                       ELSE opened
        IN  Then(Then(Then(place_close_order(counted, account),
                           LAMBDA t : place_averaging_order(t, account)),
                      LAMBDA t : replace_grid_order(t, level_price, order.symbol)),
                 LAMBDA t : {[t EXCEPT !.order_account_mapping = Pop(@, order.order_id)]})

handle_grid_order_fill(s, order) ==
    LET account == order.account_id
    IN  IF account \notin DOMAIN s.accounts \/ PositionOf(s, account) # NoPosition
        THEN {s}
        ELSE
        LET level_price == IF order.level_price # 0 THEN R(order.level_price) ELSE order.price
            level_cfg == get_level_config(order.symbol, order.price)
            position == [Position(order.symbol, order.quantity, order.price, level_price)
                            EXCEPT !.leverage = level_cfg.leverage,
                                   !.risk_zone = level_cfg.risk_zone]
            level == IF order.level_price # 0 THEN get_level(order.symbol, R(order.level_price)) ELSE 0
            opened == [s EXCEPT !.accounts[account] = Account_open_position(@, position),
                                !.folded[account] = <<[qty |-> order.quantity, price |-> order.price]>>]
            counted == IF level # 0
                       THEN [opened EXCEPT !.levels[order.symbol][level] = Level_open_position(@)]
                       ELSE opened
        IN  Then(Then(Then(place_close_order(counted, account),
                           LAMBDA t : place_averaging_order(t, account)),
                      LAMBDA t : replace_grid_order(t, level_price, order.symbol)),
                 LAMBDA t : {[t EXCEPT !.order_account_mapping = Pop(@, order.order_id)]})

handle_close_order_fill(s, order) ==
    LET account == find_position_by_order(s, order.order_id, "close")
    IN  IF account = NoAccount THEN {s}
        ELSE
        LET position == PositionOf(s, account)
            level_price == position.level_price
            level == get_level(position.symbol, level_price)
            cancelled == IF position.averaging_order_id # NoOrderId
                         THEN cancel_and_cleanup_order(s, position.averaging_order_id,
                                                       position.symbol, account)
                         ELSE {s}
            closed(t) ==
                LET detached == [t EXCEPT !.accounts[account] = Account_close_position(@),
                                          !.folded[account] = <<>>]
                    counted == IF level # 0
                               THEN [detached EXCEPT !.levels[position.symbol][level] =
                                                         Level_close_position(@)]
                               ELSE detached
                IN  return_account_to_queue(counted, account)
        IN  Then(Then(cancelled,
                      LAMBDA t : place_new_grid_order_on_level(closed(t), level_price, position.symbol)),
                 LAMBDA t : {[t EXCEPT !.order_account_mapping = Pop(@, order.order_id)]})

handle_averaging_order_fill(s, order) ==
    LET account == find_position_by_order(s, order.order_id, "averaging")
    IN  IF account = NoAccount THEN {s}
        ELSE
        LET averaged == [s EXCEPT !.accounts[account].long_usdt_position =
                                      add_averaging(@, order.quantity, order.price),
                                  !.folded[account] =
                                      Append(@, [qty |-> order.quantity, price |-> order.price])]
            position == PositionOf(averaged, account)
            cancelled == IF position.close_order_id # NoOrderId
                         THEN cancel_and_cleanup_order(averaged, position.close_order_id,
                                                       position.symbol, account)
                         ELSE {averaged}
        IN  Then(Then(cancelled, LAMBDA t : place_breakeven_close_order(t, account)),
                 LAMBDA t : {[t EXCEPT !.order_account_mapping = Pop(@, order.order_id)]})

handle_order_fill(s, order) ==
    LET t == Log(s, <<"handle_order_fill", order.order_id, order.purpose>>)
    IN  IF order.purpose = "grid" THEN handle_grid_order_fill(t, order)
        ELSE IF order.purpose = "close" THEN handle_close_order_fill(t, order)
        ELSE IF order.purpose = "averaging" THEN handle_averaging_order_fill(t, order)
        ELSE {s}

(***************************************************************************)
(* GridEngine: the polling cycle                                           *)
(***************************************************************************)
\* check_order_status answers "Filled", some other status, or raises.
check_order_status(s, order) ==
    {Return(Log(s, <<"check_order_status", order.order_id, "Filled">>), "Filled"),
     Return(Log(s, <<"check_order_status", order.order_id, "New">>), "New"),
     Raise(Log(s, <<"check_order_status", order.order_id, "raise">>))}

\* order.mark_filled() on the tracked order object.
MarkFilledInPlace(orders, order_id) ==
    [i \in DOMAIN orders |->
        IF orders[i].order_id = order_id THEN mark_filled(orders[i]) ELSE orders[i]]

\* A poll that marks the Filled order and leaves it in active_orders.
take_filled_order_kept(t, order) ==
    [t EXCEPT !.active_orders = MarkFilledInPlace(@, order.order_id)]

\* order.mark_filled() and active_orders.pop(order_id, None), with no await
\* between them.
take_filled_order(t, order) ==
    [t EXCEPT !.active_orders = PopOrder(MarkFilledInPlace(@, order.order_id), order.order_id)]

\* The first loop: `filled` is carried in the second component.
RECURSIVE check_filled_orders_poll(_, _)
check_filled_orders_poll(S, snapshot) ==
    IF snapshot = <<>> THEN S
    ELSE LET order == Head(snapshot)
             step(p) ==
                {IF t.raised THEN <<t, p[2]>>
                 ELSE IF t.ret = "Filled"
                      THEN <<take_filled_order(t, order), Append(p[2], mark_filled(order))>>
                      ELSE <<t, p[2]>>
                 : t \in check_order_status(p[1], order)}
         IN  check_filled_orders_poll(
                 UNION {IF p[1].raised THEN {p} ELSE step(p) : p \in S}, Tail(snapshot))

RECURSIVE check_filled_orders_dispatch(_, _)
check_filled_orders_dispatch(S, filled) ==
    IF filled = <<>> THEN S
    ELSE check_filled_orders_dispatch(
             Then(S, LAMBDA t : handle_order_fill(t, Head(filled))), Tail(filled))

check_filled_orders(s) ==
    UNION {IF p[1].raised THEN {p[1]} ELSE check_filled_orders_dispatch({p[1]}, p[2])
           : p \in check_filled_orders_poll({<<s, <<>> >>}, s.active_orders)}


(***************************************************************************)
(* GridEngine: initialization                                              *)
(***************************************************************************)
\* get_account_balance answers an amount; a raised error is caught and the
\* balance set to 0.
RECURSIVE initialize_balances(_, _)
initialize_balances(S, ids) ==
    IF ids = <<>> THEN S
    ELSE initialize_balances(
             {[t EXCEPT !.accounts[Head(ids)].balance = b] : t \in S, b \in BalanceVals \cup {0}},
             Tail(ids))

\* get_current_price answers a price or raises, which aborts initialize.
initialize_symbol(s, symbol) ==
    {Raise(s)} \cup
    {[s EXCEPT !.current_prices[symbol] = current_price,
               !.levels = initialize_levels(@, symbol, R(current_price))]
     : current_price \in PriceVals}

RECURSIVE initialize_symbols(_, _)
initialize_symbols(S, symbols) ==
    IF symbols = <<>> THEN S
    ELSE initialize_symbols(Then(S, LAMBDA t : initialize_symbol(t, Head(symbols))),
                            Tail(symbols))

\* An initialize that does not look for the exchange manager.
initialize_unguarded(s) ==
    initialize_symbols(initialize_balances({s}, ACCOUNT_IDS), SYMBOLS)

initialize(s) ==
    IF ~exchange_manager THEN {Raise(s)}
    ELSE initialize_symbols(initialize_balances({s}, ACCOUNT_IDS), SYMBOLS)

(***************************************************************************)
(* The state machine                                                       *)
(***************************************************************************)
\* GridBotMain.__init__: nothing is running yet.
MainConstructed ==
    /\ is_running = FALSE
    /\ telegram_bot = FALSE
    /\ main_pc = "not_started"
    /\ shutdown_pc = "idle"
    /\ iterations = 0
    /\ errors = 0

\* No pure function has been called.
NoCall ==
    /\ call = <<>>
    /\ result = <<>>

\* The webhook route has not been requested; nothing was published.
NoRequest ==
    /\ request = <<>>
    /\ response = <<>>
    /\ published = <<>>

Init ==
    /\ accounts = AccountQueue_accounts
    /\ long_queue = AccountQueue_long_queue
    /\ levels = LevelManager_levels
    /\ current_prices = [symbol \in Symbols |-> 0]
    /\ active_orders = <<>>
    /\ order_account_mapping = EmptyMap
    /\ exchange_manager = FALSE
    /\ PROFIT_CLOSE_MODE \in ProfitCloseModes
    /\ next_order_id = 1
    /\ folded = [a \in Accounts |-> <<>>]
    /\ last_op = [op |-> "__init__", raised |-> FALSE]
    /\ trace = <<>>
    /\ MainConstructed
    /\ NoCall
    /\ NoRequest

\* The engine's state after an operation ended in outcome t.
Commit(t, op) ==
    /\ accounts' = t.accounts
    /\ long_queue' = t.long_queue
    /\ levels' = t.levels
    /\ current_prices' = t.current_prices
    /\ active_orders' = t.active_orders
    /\ order_account_mapping' = t.order_account_mapping
    /\ next_order_id' = t.next_order_id
    /\ folded' = t.folded
    /\ trace' = t.trace
    /\ last_op' = [op |-> op, raised |-> t.raised]
    /\ UNCHANGED <<exchange_manager, PROFIT_CLOSE_MODE, main_vars, call_vars, webhook_vars>>

\* initialize() has completed: every symbol has its current price.
Initialized == exchange_manager /\ \A symbol \in Symbols : current_prices[symbol] # 0

SetExchangeManager ==
    /\ ~exchange_manager
    /\ exchange_manager' = TRUE
    /\ last_op' = [op |-> "set_exchange_manager", raised |-> FALSE]
    /\ trace' = <<>>
    /\ UNCHANGED <<accounts, long_queue, levels, current_prices, active_orders,
                   order_account_mapping, PROFIT_CLOSE_MODE, next_order_id, folded,
                   main_vars, call_vars, webhook_vars>>

Initialize ==
    /\ ~Initialized
    /\ \E t \in initialize(EngineState) : Commit(t, "initialize")

PlaceGridOrders ==
    /\ Initialized
    /\ \E t \in place_grid_orders(EngineState) : Commit(t, "place_grid_orders")

CheckFilledOrders ==
    /\ Initialized
    /\ \E t \in check_filled_orders(EngineState) : Commit(t, "check_filled_orders")

Next == SetExchangeManager \/ Initialize \/ PlaceGridOrders \/ CheckFilledOrders

Spec == Init /\ [][Next]_vars

TypeOK ==
    /\ \A a \in Accounts : accounts[a].status \in {"FREE", "BUSY"}
    /\ Range(long_queue) \subseteq Accounts
    /\ next_order_id \in 1..(MaxOrderId + 1)


(***************************************************************************)
(* AccountQueue on its own: acquire and release applied, in any order, to  *)
(* any pool the engine can hold (a duplicate-free working set of accounts   *)
(* without a position, any cached balances).                               *)
(***************************************************************************)
QUEUE_ACCOUNT_IDS == <<"acc1", "acc2", "acc3">>
QueueAccounts == {QUEUE_ACCOUNT_IDS[i] : i \in DOMAIN QUEUE_ACCOUNT_IDS}
RequiredBalances == {R(0), R(90), R(100), R(200)}

DuplicateFreeQueues ==
    {q \in UNION {[1..n -> QueueAccounts] : n \in 0..Cardinality(QueueAccounts)} :
        \A i, j \in DOMAIN q : q[i] = q[j] => i = j}

QueueInit ==
    /\ accounts \in {[a \in QueueAccounts |-> [TradingAccount(a) EXCEPT !.balance = b[a]]] :
                        b \in [QueueAccounts -> BalanceVals \cup {0}]}
    /\ long_queue \in DuplicateFreeQueues
    /\ levels = LevelManager_levels
    /\ current_prices = [symbol \in Symbols |-> 0]
    /\ active_orders = <<>>
    /\ order_account_mapping = EmptyMap
    /\ exchange_manager = FALSE
    /\ PROFIT_CLOSE_MODE = "level"
    /\ next_order_id = 1
    /\ folded = [a \in QueueAccounts |-> <<>>]
    /\ last_op = [op |-> "__init__", raised |-> FALSE]
    /\ trace = <<>>
    /\ MainConstructed
    /\ NoCall
    /\ NoRequest

QueueAcquire ==
    /\ Range(long_queue) \subseteq DOMAIN accounts
    /\ \E required_balance \in RequiredBalances :
        Commit(get_next_free_account(EngineState, required_balance), "get_next_free_account")

QueueRelease ==
    /\ Range(long_queue) \subseteq DOMAIN accounts
    /\ \E account \in QueueAccounts :
        Commit(return_account_to_queue(EngineState, account), "return_account_to_queue")

QueueNext == QueueAcquire \/ QueueRelease

SpecQueue == QueueInit /\ [][QueueNext]_vars


(***************************************************************************)
(* Observations on the calls of the last operation                         *)
(***************************************************************************)
Events(tr, kind) == SelectSeq(tr, LAMBDA e : e[1] = kind)

HasGridOrder(account) ==
    \E i \in DOMAIN active_orders :
        active_orders[i].purpose = "grid" /\ active_orders[i].account_id = account

IndexOf(q, a) == CHOOSE i \in DOMAIN q : q[i] = a

RECURSIVE SumQty(_)
SumQty(fills) ==
    IF fills = <<>> THEN R(0) ELSE RatAdd(Head(fills).qty, SumQty(Tail(fills)))

RECURSIVE SumCost(_)
SumCost(fills) ==
    IF fills = <<>> THEN R(0)
    ELSE RatAdd(RatMul(Head(fills).qty, Head(fills).price), SumCost(Tail(fills)))

\* The pools of SpecQueue are those of the engine: the working set holds no
\* account twice and none that has a position.
QueueMembersFree ==
    /\ \A a \in Accounts : Count(long_queue, a) <= 1
    /\ \A a \in Range(long_queue) : accounts[a].long_usdt_position = NoPosition

(***************************************************************************)
(* Properties                                                              *)
(***************************************************************************)

\* C1: in every reachable state every GridLevel has
\* positions_count <= max_positions.
C1_LevelCapacity ==
    \A symbol \in Symbols : \A price \in DOMAIN levels[symbol] :
        levels[symbol][price].positions_count <= levels[symbol][price].max_positions

\* C2: between operations an account's status is BUSY exactly when its
\* long_usdt_position is set.
C2_BusyIffPosition ==
    \A a \in DOMAIN accounts :
        (accounts[a].status = "BUSY") <=> (accounts[a].long_usdt_position # NoPosition)

\* A position is open on one account while a close fill has just freed another.
C2_Witness ==
    /\ \E a \in DOMAIN accounts : accounts[a].status = "BUSY"
    /\ \E a \in DOMAIN accounts :
          /\ accounts[a].status = "FREE"
          /\ <<"return_account_to_queue", a>> \in Range(trace)

\* C3: after every completed operation every key of order_account_mapping
\* is a key of active_orders.
C3_MappingWithinActiveOrders ==
    ~last_op.raised => DOMAIN order_account_mapping \subseteq ActiveIds(active_orders)

\* C4: an account acquired by a placement cycle that got no grid order is
\* back in the working set when the cycle ends.
C4_AcquiredAccountReturned ==
    (last_op.op = "place_grid_orders" /\ ~last_op.raised) =>
        \A i \in DOMAIN trace :
            (trace[i][1] = "get_next_free_account" /\ trace[i][3] # NoAccount) =>
                (HasGridOrder(trace[i][3]) \/ trace[i][3] \in Range(long_queue))

\* C5: after cancel_and_cleanup_order returns, the order id is in neither
\* active_orders nor order_account_mapping, whatever the exchange answered.
C5_CancelledOrderUntracked ==
    \A i \in DOMAIN trace :
        trace[i][1] = "cancel_order" =>
            /\ trace[i][2] \notin ActiveIds(active_orders)
            /\ trace[i][2] \notin DOMAIN order_account_mapping

\* A polling cycle whose only fill is the close order of account a's
\* position, which has a pending averaging order.
CloseFillWithPendingAveraging(a) ==
    LET position == accounts[a].long_usdt_position
    IN  /\ position # NoPosition
        /\ position.close_order_id # NoOrderId
        /\ position.averaging_order_id \in ActiveIds(active_orders)
        /\ last_op'.op = "check_filled_orders"
        /\ Events(trace', "handle_order_fill") =
              << <<"handle_order_fill", position.close_order_id, "close">> >>

OneCancelForAveraging(a) ==
    LET cancels == Events(trace', "cancel_order")
    IN  Len(cancels) = 1 /\ cancels[1][2] = accounts[a].long_usdt_position.averaging_order_id

\* C6 as stated: one cancel request for the averaging order, and afterwards
\* the account is in the working set exactly once.
C6_CloseFillLeavesAccountInQueue ==
    [][\A a \in DOMAIN accounts :
          CloseFillWithPendingAveraging(a) =>
              OneCancelForAveraging(a) /\ Count(long_queue', a) = 1]_vars

\* C6 amended: one cancel request for the averaging order and one return of
\* the account to the pool; afterwards the account is in the working set
\* once, unless the fresh grid order on the vacated level acquired it again.
C6_CloseFillReturnsAccountOnce ==
    [][\A a \in DOMAIN accounts :
          CloseFillWithPendingAveraging(a) =>
              /\ OneCancelForAveraging(a)
              /\ Events(trace', "return_account_to_queue") = << <<"return_account_to_queue", a>> >>
              /\ \/ Count(long_queue', a) = 1
                 \/ /\ Count(long_queue', a) = 0
                    /\ \E i \in DOMAIN trace' :
                          trace'[i][1] = "get_next_free_account" /\ trace'[i][3] = a]_vars

\* A close fill was handled with one cancel request and one return, and the
\* freed account was taken again for the level's fresh grid order.
C6_Witness ==
    /\ last_op.op = "check_filled_orders"
    /\ Len(Events(trace, "handle_order_fill")) = 1
    /\ Events(trace, "handle_order_fill")[1][3] = "close"
    /\ Len(Events(trace, "cancel_order")) = 1
    /\ \E a \in DOMAIN accounts :
          /\ <<"return_account_to_queue", a>> \in Range(trace)
          /\ a \notin Range(long_queue)

\* The accounts of the working set that meet a balance requirement.
Eligible(m) == {a \in Range(long_queue) : RatLE(m, R(accounts[a].balance))}

AcquireStep(m, r) ==
    /\ last_op'.op = "get_next_free_account"
    /\ trace' = << <<"get_next_free_account", m, r>> >>

\* C7: when some account of the working set has balance >= m,
\* get_next_free_account(m) returns one of maximal balance among them, the
\* first in queue order on ties, and removes exactly it.
C7_AcquireHighestBalance ==
    [][\A m \in RequiredBalances : \A r \in QueueAccounts \cup {NoAccount} :
          (AcquireStep(m, r) /\ Eligible(m) # {}) =>
              /\ r \in Eligible(m)
              /\ \A b \in Eligible(m) :
                    /\ accounts[b].balance <= accounts[r].balance
                    /\ accounts[b].balance = accounts[r].balance =>
                          IndexOf(long_queue, r) <= IndexOf(long_queue, b)
              /\ Range(long_queue') = Range(long_queue) \ {r}
              /\ Len(long_queue') = Len(long_queue) - 1
              /\ accounts' = accounts]_vars

\* An account was returned while a poorer eligible one and an equally rich
\* later one could also have been chosen.
C7_Witness ==
    /\ last_op.op = "get_next_free_account"
    /\ \E m \in RequiredBalances : \E r \in QueueAccounts :
          /\ trace = << <<"get_next_free_account", m, r>> >>
          /\ \E b \in Eligible(m) : accounts[b].balance < accounts[r].balance
          /\ \E b \in Eligible(m) : accounts[b].balance = accounts[r].balance

\* C8: when no account of the working set has balance >= m,
\* get_next_free_account(m) returns None and changes neither the working
\* set nor any account.
C8_AcquireNoneLeavesPoolUnchanged ==
    [][\A m \in RequiredBalances : \A r \in QueueAccounts \cup {NoAccount} :
          (AcquireStep(m, r) /\ Eligible(m) = {}) =>
              /\ r = NoAccount
              /\ long_queue' = long_queue
              /\ accounts' = accounts]_vars

\* None was answered although the working set is not empty.
C8_Witness ==
    /\ last_op.op = "get_next_free_account"
    /\ \E m \in RequiredBalances : trace = << <<"get_next_free_account", m, NoAccount>> >>
    /\ long_queue # <<>>

ReleaseStep(a) ==
    /\ last_op'.op = "return_account_to_queue"
    /\ trace' = << <<"return_account_to_queue", a>> >>

\* C9: the working set never holds an account twice; after a release the
\* account is in it exactly once, and releasing an account already in the
\* working set changes nothing.
C9_ReleaseIdempotent ==
    /\ [](\A a \in QueueAccounts : Count(long_queue, a) <= 1)
    /\ [][\A a \in QueueAccounts :
             ReleaseStep(a) =>
                 /\ Count(long_queue', a) = 1
                 /\ a \in Range(long_queue) => long_queue' = long_queue]_vars

\* An account already in the working set was released again.
C9_Witness ==
    /\ last_op.op = "return_account_to_queue"
    /\ \E a \in QueueAccounts :
          /\ trace = << <<"return_account_to_queue", a>> >>
          /\ Count(long_queue, a) = 1
          /\ long_queue[Len(long_queue)] # a

\* C10: for every open position, total_quantity is the sum of the folded
\* quantities and average_entry_price * total_quantity the sum of
\* qty * price over the folded fills; entry 100 qty 1 averaged with qty 1 at
\* 90 gives average 95 and quantity 2.
C10_VolumeWeightedAverage ==
    /\ \A a \in DOMAIN accounts :
          LET position == accounts[a].long_usdt_position
          IN  position # NoPosition =>
                 /\ folded[a] # <<>>
                 /\ position.total_quantity = SumQty(folded[a])
                 /\ RatMul(position.average_entry_price, position.total_quantity)
                       = SumCost(folded[a])
    /\ LET averaged == add_averaging(Position("BTCUSDT", R(1), R(100), R(100)), R(1), R(90))
       IN  averaged.average_entry_price = R(95) /\ averaged.total_quantity = R(2)

\* A position into which an averaging fill was folded after the grid fill.
C10_Witness ==
    \E a \in DOMAIN accounts :
        /\ accounts[a].long_usdt_position # NoPosition
        /\ Len(folded[a]) = 2
        /\ accounts[a].long_usdt_position.is_averaged

\* C11: after a polling cycle, every tracked order the exchange reported
\* Filled in that cycle has been removed from the active orders and handed to
\* handle_order_fill, also when a later status query of the cycle failed.
C11_FilledOrdersDispatched ==
    last_op.op = "check_filled_orders" =>
        \A i \in DOMAIN trace :
            (trace[i][1] = "check_order_status" /\ trace[i][3] = "Filled") =>
                /\ trace[i][2] \notin ActiveIds(active_orders)
                /\ \E j \in DOMAIN trace :
                       trace[j][1] = "handle_order_fill" /\ trace[j][2] = trace[i][2]

(***************************************************************************)
(* GridBotMain: the main loop and the shutdown                             *)
(*                                                                         *)
(* The main task and the signal handler's task are coroutines of one event *)
(* loop: a task runs from one await to the next without interruption, so   *)
(* main_pc names the await at which the main task is suspended and each    *)
(* action is the code between two awaits.                                  *)
(***************************************************************************)
MaxIterations == 4

MainAwaits == {"start_system", "run_trading_loop", "sleep",
               "send_error_notification", "sleep_retry"}

\* How run_main_loop can be left: the while test failed, an exception left the
\* coroutine, or the task was cancelled at its await.
MainEnded == {"returned", "raised", "cancelled"}

\* `while self.is_running and self.grid_engine:` followed by the first await
\* of the body.  The engine is set, start_system has tested it.
LoopTest ==
    IF is_running
    THEN /\ iterations < MaxIterations
         /\ main_pc' = "run_trading_loop"
         /\ iterations' = iterations + 1
    ELSE /\ main_pc' = "returned"
         /\ iterations' = iterations

\* The body of the except clause up to its first await.
ExceptClause ==
    /\ errors' = errors + 1
    /\ main_pc' = IF telegram_bot THEN "send_error_notification" ELSE "sleep_retry"

\* start_system has placed the initial orders and sent the startup
\* notification; it calls run_main_loop.
MainStart ==
    /\ main_pc = "start_system"
    /\ LoopTest
    /\ UNCHANGED <<engine_vars, call_vars, webhook_vars, is_running, telegram_bot, shutdown_pc, errors>>

\* grid_engine.run_trading_loop() returns, or raises an Exception of one of
\* the exchange calls it makes.
MainRunTradingLoop ==
    /\ main_pc = "run_trading_loop"
    /\ \/ main_pc' = "sleep" /\ errors' = errors
       \/ ExceptClause
    /\ UNCHANGED <<engine_vars, call_vars, webhook_vars, is_running, telegram_bot, shutdown_pc, iterations>>

\* sleep(MAIN_LOOP_INTERVAL) is over.
MainSleep ==
    /\ main_pc = "sleep"
    /\ LoopTest
    /\ UNCHANGED <<engine_vars, call_vars, webhook_vars, is_running, telegram_bot, shutdown_pc, errors>>

\* send_error_notification returns, or raises: the except clause has no
\* handler of its own, so the exception leaves run_main_loop.
MainSendErrorNotification ==
    /\ main_pc = "send_error_notification"
    /\ main_pc' \in {"sleep_retry", "raised"}
    /\ UNCHANGED <<engine_vars, call_vars, webhook_vars, is_running, telegram_bot, shutdown_pc, iterations, errors>>

\* sleep(ERROR_RETRY_INTERVAL) is over.
MainSleepRetry ==
    /\ main_pc = "sleep_retry"
    /\ LoopTest
    /\ UNCHANGED <<engine_vars, call_vars, webhook_vars, is_running, telegram_bot, shutdown_pc, errors>>

\* A signal arrives: signal_handler's task runs shutdown_system up to its
\* first await.
ShutdownSystem ==
    /\ shutdown_pc = "idle"
    /\ is_running' = FALSE
    /\ shutdown_pc' = "shutdown_system"
    /\ UNCHANGED <<engine_vars, call_vars, webhook_vars, telegram_bot, main_pc, iterations, errors>>

\* shutdown_system is over (its errors are caught) and signal_handler calls
\* sys.exit(0): SystemExit leaves the event loop, and asyncio.run cancels the
\* tasks that are not done, each at the await where it is suspended.
SysExit ==
    /\ shutdown_pc = "shutdown_system"
    /\ shutdown_pc' = "sys_exit"
    /\ main_pc' = IF main_pc \in MainAwaits THEN "cancelled" ELSE main_pc
    /\ UNCHANGED <<engine_vars, call_vars, webhook_vars, is_running, telegram_bot, iterations, errors>>

\* start_system before it calls run_main_loop: is_running is set, the engine
\* is initialized, the telegram bot is attached or not.
MainInit ==
    /\ accounts = AccountQueue_accounts
    /\ long_queue = AccountQueue_long_queue
    /\ levels = LevelManager_levels
    /\ current_prices = [symbol \in Symbols |-> 0]
    /\ active_orders = <<>>
    /\ order_account_mapping = EmptyMap
    /\ exchange_manager = TRUE
    /\ PROFIT_CLOSE_MODE = "breakeven"
    /\ next_order_id = 1
    /\ folded = [a \in Accounts |-> <<>>]
    /\ last_op = [op |-> "__init__", raised |-> FALSE]
    /\ trace = <<>>
    /\ is_running = TRUE
    /\ telegram_bot \in BOOLEAN
    /\ main_pc = "start_system"
    /\ shutdown_pc = "idle"
    /\ iterations = 0
    /\ errors = 0
    /\ NoCall
    /\ NoRequest

MainNext ==
    \/ MainStart
    \/ MainRunTradingLoop
    \/ MainSleep
    \/ MainSendErrorNotification
    \/ MainSleepRetry
    \/ ShutdownSystem
    \/ SysExit

SpecMain == MainInit /\ [][MainNext]_vars

\* C12: the main loop ends only when the running flag was set false by a
\* shutdown; no failure of an exchange or notification call ends it.
C12_LoopEndsOnlyOnShutdown ==
    main_pc \in MainEnded => ~is_running

\* C13: once shutdown has set the running flag false the main loop starts no
\* new iteration, and the trading iteration in flight is not aborted: the
\* main task never leaves the await of run_trading_loop by being cancelled.
C13_ShutdownLetsIterationFinish ==
    [][/\ ~is_running => iterations' = iterations
       /\ main_pc = "run_trading_loop" => main_pc' # "cancelled"]_vars

\* C14: initialize_levels sets a level's is_active_long true exactly when the
\* relative deviation |price - level| / level is at least the activation
\* threshold 0.01, the boundary included: for level 100 the price 100.5
\* leaves it inactive and the price 102 activates it.
C14_ActivationThresholdInclusive ==
    /\ (last_op.op = "initialize" /\ ~last_op.raised) =>
           \A symbol \in Symbols : \A price \in DOMAIN levels[symbol] :
               levels[symbol][price].is_active_long
                   <=> 100 * Abs(current_prices[symbol] - price) >= price
    /\ ~initialize_levels(LevelManager_levels, "BTCUSDT", Rat(201, 2))["BTCUSDT"][100].is_active_long
    /\ initialize_levels(LevelManager_levels, "BTCUSDT", R(102))["BTCUSDT"][100].is_active_long

\* initialize ran with the price 101, exactly 1% above the level 100, which
\* it activated.
C14_Witness ==
    /\ last_op = [op |-> "initialize", raised |-> FALSE]
    /\ current_prices["BTCUSDT"] = 101
    /\ levels["BTCUSDT"][100].is_active_long

(***************************************************************************)
(* RiskZoneManager called on its own: one call of get_risk_zone or of      *)
(* get_level_config with a price drawn from the halves between MinCallPrice*)
(* and MaxCallPrice.                                                       *)
(***************************************************************************)
MinCallPrice == 80
MaxCallPrice == 120

CallPrices == {Rat(h, 2) : h \in 2 * MinCallPrice .. 2 * MaxCallPrice}

\* The engine as GridEngine.__init__ leaves it, nothing attached.
EngineConstructed ==
    /\ accounts = AccountQueue_accounts
    /\ long_queue = AccountQueue_long_queue
    /\ levels = LevelManager_levels
    /\ current_prices = [symbol \in Symbols |-> 0]
    /\ active_orders = <<>>
    /\ order_account_mapping = EmptyMap
    /\ exchange_manager = FALSE
    /\ PROFIT_CLOSE_MODE = "level"
    /\ next_order_id = 1
    /\ folded = [a \in Accounts |-> <<>>]
    /\ last_op = [op |-> "__init__", raised |-> FALSE]
    /\ trace = <<>>

ZoneInit ==
    /\ EngineConstructed
    /\ MainConstructed
    /\ NoRequest
    /\ call \in {<<fn, symbol, price>> : fn \in {"get_risk_zone", "get_level_config"},
                                         symbol \in Symbols, price \in CallPrices}
    /\ result = <<>>

GetRiskZone ==
    /\ call[1] = "get_risk_zone"
    /\ result = <<>>
    /\ result' = <<get_risk_zone(call[2], call[3])>>
    /\ UNCHANGED <<engine_vars, main_vars, webhook_vars, call>>

GetLevelConfig ==
    /\ call[1] = "get_level_config"
    /\ result = <<>>
    /\ result' = <<get_level_config(call[2], call[3])>>
    /\ UNCHANGED <<engine_vars, main_vars, webhook_vars, call>>

ZoneNext ==
    \/ GetRiskZone
    \/ GetLevelConfig

SpecZone == ZoneInit /\ [][ZoneNext]_vars

\* The zone a finished call answered.
AnsweredZone == IF call[1] = "get_risk_zone" THEN result[1] ELSE result[1].risk_zone

\* C15: with oversold boundary 95 and overbought boundary 105 a price is
\* OVERSOLD when price <= 95, OVERBOUGHT when price >= 105 and NEUTRAL in
\* between, and get_level_config answers that zone with the zone's leverage
\* and volume.
C15_RiskZoneOfPrice ==
    result # <<>> =>
        LET price == call[3]
            zone == IF price.n <= 95 * price.d THEN "OVERSOLD"
                    ELSE IF price.n >= 105 * price.d THEN "OVERBOUGHT"
                    ELSE "NEUTRAL"
        IN  /\ AnsweredZone = zone
            /\ call[1] = "get_level_config" =>
                   /\ zone = "OVERSOLD" =>
                          result[1].leverage = OVERSOLD_ZONE_LEVERAGE
                          /\ result[1].volume_usdt = OVERSOLD_ZONE_VOLUME_USDT
                   /\ zone = "NEUTRAL" =>
                          result[1].leverage = NEUTRAL_ZONE_LEVERAGE
                          /\ result[1].volume_usdt = NEUTRAL_ZONE_VOLUME_USDT
                   /\ zone = "OVERBOUGHT" =>
                          result[1].leverage = OVERBOUGHT_ZONE_LEVERAGE
                          /\ result[1].volume_usdt = OVERBOUGHT_ZONE_VOLUME_USDT

\* get_level_config was called with the oversold boundary itself and answered
\* the oversold zone.
C15_Witness ==
    /\ call = <<"get_level_config", "BTCUSDT", R(95)>>
    /\ result # <<>>
    /\ result[1].risk_zone = "OVERSOLD"

\* C16: initialize() called while no exchange manager is attached raises and
\* changes no engine state: no balance is cached, no current price is stored
\* and no level's active flag is changed.
C16_InitializeWithoutExchangeFails ==
    [][(~exchange_manager /\ last_op'.op = "initialize") =>
           /\ last_op'.raised
           /\ accounts' = accounts
           /\ current_prices' = current_prices
           /\ levels' = levels
           /\ long_queue' = long_queue
           /\ active_orders' = active_orders
           /\ order_account_mapping' = order_account_mapping]_vars

\* initialize was called before an exchange manager was attached.
C16_Witness ==
    /\ ~exchange_manager
    /\ last_op = [op |-> "initialize", raised |-> TRUE]

(***************************************************************************)
(* The webhook route of src/api/bybit_webhook.py.                          *)
(*                                                                         *)
(* Strings are sequences of characters, so that timestamp + body is a      *)
(* concatenation.  A header that is absent (None) and a header that is     *)
(* empty are both <<>>: the route only tests them with `not` and `or`.     *)
(* The HMAC-SHA256 hex digest is the tuple of what it was computed from:   *)
(* two digests are equal exactly when key and message are equal.           *)
(***************************************************************************)
MaxPublished == 2

BYBIT_WEBHOOK_SECRET == "secret"

Digest(secret, message) == <<"hmac", secret, message>>

Timestamps == {<<"1">>}

\* Request bodies: a JSON object, a JSON number, a truncated object and bytes
\* that are not UTF-8.
Bodies == {<<"{", "}">>, <<"1">>, <<"{">>, <<"xff">>}

Digits == {"0", "1", "2"}

\* The values a signature header can carry: nothing, a text that is no
\* digest, a text with non-ASCII characters, the digest under the configured
\* secret and the digest under another secret.
SignatureValues ==
    {<<>>, <<"invalid">>, <<"non_ascii">>}
    \cup {Digest(BYBIT_WEBHOOK_SECRET, ts \o body) : ts \in Timestamps, body \in Bodies}
    \cup {Digest("other", ts \o <<"{", "}">>) : ts \in Timestamps}

Requests ==
    [x_bybit_signature : SignatureValues, x_bybit_timestamp : Timestamps \cup {<<>>},
     x_bapi_sign : SignatureValues, x_bapi_timestamp : Timestamps \cup {<<>>},
     body : Bodies]

\* Python's `a or b` on two optional strings.
Or(a, b) == IF a # <<>> THEN a ELSE b

\* hmac.compare_digest on two str raises TypeError when one of them holds a
\* non-ASCII character.
compare_digest(expected, signature) ==
    IF signature = <<"non_ascii">> THEN "TypeError"
    ELSE IF expected = signature THEN "True" ELSE "False"

verify_signature(payload, recv_timestamp, signature) ==
    compare_digest(Digest(BYBIT_WEBHOOK_SECRET, recv_timestamp \o payload), signature)

\* _verify: the three-argument call; on TypeError the two-argument call, which
\* raises TypeError for the missing argument; that lands in the outer handler
\* and the fallback BybitSignatureService(BybitSettings()) raises for the
\* missing settings, which is answered with status 500.
Verify(body, timestamp, signature) ==
    LET ok == verify_signature(body, timestamp, signature)
    IN  IF ok = "TypeError"
        THEN [raised |-> TRUE, status |-> 500, detail |-> "Signature service unavailable"]
        ELSE [raised |-> FALSE, valid |-> (ok = "True")]

\* body.decode("utf-8") followed by json.loads, by the kind of value parsed.
json_loads(body) ==
    IF "xff" \in Range(body) THEN "UnicodeDecodeError"
    ELSE IF body = <<"{", "}">> THEN "dict"
    ELSE IF body # <<>> /\ Range(body) \subseteq Digits THEN "int"
    ELSE "JSONDecodeError"

HTTPException(status, detail) == [status |-> status, body |-> detail]

\* An exception that leaves the route is answered by the framework.
InternalServerError == [status |-> 500, body |-> "Internal Server Error"]

StatusOk == [status |-> 200, body |-> "{\"status\": \"ok\"}"]

BybitWebhookEvent(timestamp, payload) == [timestamp |-> timestamp, payload |-> payload]

\* The route: the set of its outcomes [response, published] for one request
\* and the events published so far.  publish returns or raises.
bybit_webhook(req, events) ==
    LET signature == Or(req.x_bybit_signature, req.x_bapi_sign)
        timestamp == Or(req.x_bybit_timestamp, req.x_bapi_timestamp)
        answer(r) == {[response |-> r, published |-> events]}
    IN  IF signature = <<>> \/ timestamp = <<>>
        THEN answer(HTTPException(400, "Missing signature headers"))
        ELSE
        LET verified == Verify(req.body, timestamp, signature)
        IN  IF verified.raised THEN answer(HTTPException(verified.status, verified.detail))
            ELSE IF ~verified.valid THEN answer(HTTPException(401, "Invalid signature"))
            ELSE
            LET payload == json_loads(req.body)
            IN  IF payload = "JSONDecodeError"
                THEN answer(HTTPException(400, "Invalid JSON payload"))
                ELSE IF payload # "dict" THEN answer(InternalServerError)
                ELSE {[response |-> StatusOk,
                       published |-> Append(events, BybitWebhookEvent(timestamp, payload))]}
                     \cup answer(HTTPException(500, "Failed to publish event"))

WebhookInit ==
    /\ EngineConstructed
    /\ MainConstructed
    /\ NoCall
    /\ NoRequest

BybitWebhook ==
    /\ Len(published) < MaxPublished
    /\ \E req \in Requests : \E out \in bybit_webhook(req, published) :
           /\ request' = req
           /\ response' = out.response
           /\ published' = out.published
    /\ UNCHANGED <<engine_vars, main_vars, call_vars>>

WebhookNext == BybitWebhook

SpecWebhook == WebhookInit /\ [][WebhookNext]_vars

\* The signature and timestamp the route reads from a request, and whether
\* the signature is the digest of timestamp + body under the secret.
SignatureOf(req) == IF req.x_bybit_signature # <<>> THEN req.x_bybit_signature ELSE req.x_bapi_sign
TimestampOf(req) == IF req.x_bybit_timestamp # <<>> THEN req.x_bybit_timestamp ELSE req.x_bapi_timestamp
HeadersMissing(req) == SignatureOf(req) = <<>> \/ TimestampOf(req) = <<>>
SignatureValid(req) == SignatureOf(req) = <<"hmac", "secret", TimestampOf(req) \o req.body>>
ValidJsonBodies == {<<"{", "}">>, <<"1">>}

\* C17: the webhook publishes only after the signature was verified: a
\* request with missing signature or timestamp headers or with an invalid
\* signature is answered with an error status and nothing is published; a
\* request with a valid signature and a valid JSON body is published exactly
\* once and answered {"status": "ok"}.
C17_WebhookPublishesVerifiedOnly ==
    [][/\ (HeadersMissing(request') \/ ~SignatureValid(request')) =>
              response'.status >= 400 /\ published' = published
       /\ (~HeadersMissing(request') /\ SignatureValid(request')
              /\ request'.body \in ValidJsonBodies) =>
              /\ response' = StatusOk
              /\ Len(published') = Len(published) + 1
              /\ published'[Len(published')].timestamp = TimestampOf(request')]_vars

\* C17, the part that holds: every step that publishes an event answers a
\* request whose headers are present and whose signature is valid, and
\* publishes one event carrying the request's timestamp.
C17_PublishedOnlyAfterVerification ==
    [][published' # published =>
           /\ ~HeadersMissing(request') /\ SignatureValid(request')
           /\ response' = StatusOk
           /\ published' = Append(published, [timestamp |-> TimestampOf(request'),
                                              payload |-> "dict"])]_vars

\* The polling cycle of this step dispatched exactly one fill, that of the
\* tracked order `order`.
OnlyFillDispatched(order) ==
    /\ last_op'.op = "check_filled_orders"
    /\ Events(trace', "handle_order_fill") =
          << <<"handle_order_fill", order.order_id, order.purpose>> >>

\* The state a handled grid fill must leave, for an owning account that held
\* no position.
GridFillOpenedPosition(order) ==
    LET account == accounts'[order.account_id]
        position == account.long_usdt_position
        zone == IF order.price.n <= 95 * order.price.d THEN "OVERSOLD"
                ELSE IF order.price.n >= 105 * order.price.d THEN "OVERBOUGHT"
                ELSE "NEUTRAL"
    IN  /\ account.status = "BUSY"
        /\ position # NoPosition
        /\ position.quantity = order.quantity
        /\ position.entry_price = order.price
        /\ position.level_price = R(order.level_price)
        /\ position.risk_zone = zone
        /\ position.leverage = IF zone = "OVERSOLD" THEN OVERSOLD_ZONE_LEVERAGE
                               ELSE IF zone = "OVERBOUGHT" THEN OVERBOUGHT_ZONE_LEVERAGE
                               ELSE NEUTRAL_ZONE_LEVERAGE
        /\ levels'[order.symbol][order.level_price].positions_count
               = levels[order.symbol][order.level_price].positions_count + 1
        /\ order.order_id \notin DOMAIN order_account_mapping'

\* C18: after a grid fill whose owning account holds no position is handled,
\* the account is BUSY with a new Position of the order's quantity, entry
\* price and level price and the zone and leverage of the fill price, the
\* level's positions_count has grown by exactly 1 and the order's id is no
\* longer in order_account_mapping.
C18_GridFillOpensPosition ==
    [][\A i \in DOMAIN active_orders :
          LET order == active_orders[i]
          IN  (/\ order.purpose = "grid"
               /\ accounts[order.account_id].long_usdt_position = NoPosition
               /\ OnlyFillDispatched(order)) => GridFillOpenedPosition(order)]_vars

\* C18 for the handlers that ran to their end.
C18_GridFillOpensPositionUnlessRaised ==
    [][\A i \in DOMAIN active_orders :
          LET order == active_orders[i]
          IN  (/\ order.purpose = "grid"
               /\ accounts[order.account_id].long_usdt_position = NoPosition
               /\ OnlyFillDispatched(order)
               /\ ~last_op'.raised) => GridFillOpenedPosition(order)]_vars

(***************************************************************************)
(* handle_grid_order_fill called on its own.  In the engine's own cycles   *)
(* no grid order is ever tracked for an account that holds a position, so  *)
(* the handler's guard is exercised by calling it directly, on an          *)
(* initialized engine, with a filled grid order of either account.         *)
(***************************************************************************)
\* An order id the engine never issues itself.
FillOrderId == MaxOrderId + 1

\* A filled grid order of `account` on the level `price`, sized as
\* place_grid_orders sizes it.
FilledGridOrder(account, price) ==
    LET level_cfg == get_level_config("BTCUSDT", R(price))
        quantity == calculate_quantity_from_usdt(R(level_cfg.volume_usdt), R(price))
    IN  mark_filled([Order(FillOrderId, "BTCUSDT", "Buy", "Limit", quantity, R(price),
                           "grid", account) EXCEPT !.level_price = price])

\* The engine after set_exchange_manager and a successful initialize.
FillInit ==
    /\ exchange_manager = TRUE
    /\ PROFIT_CLOSE_MODE \in ProfitCloseModes
    /\ \E b \in [Accounts -> BalanceVals \cup {0}], current_price \in PriceVals :
          /\ accounts = [a \in Accounts |-> [TradingAccount(a) EXCEPT !.balance = b[a]]]
          /\ current_prices = [symbol \in Symbols |-> current_price]
          /\ levels = initialize_levels(LevelManager_levels, "BTCUSDT", R(current_price))
    /\ long_queue = AccountQueue_long_queue
    /\ active_orders = <<>>
    /\ order_account_mapping = EmptyMap
    /\ next_order_id = 1
    /\ folded = [a \in Accounts |-> <<>>]
    /\ last_op = [op |-> "initialize", raised |-> FALSE]
    /\ trace = <<>>
    /\ MainConstructed
    /\ NoCall
    /\ NoRequest

HandleGridOrderFill ==
    /\ Initialized
    /\ \E account \in Accounts, price \in LevelPrices("BTCUSDT") :
          LET order == FilledGridOrder(account, price)
              called == Log(EngineState, <<"handle_grid_order_fill", account, price>>)
          IN  \E t \in handle_grid_order_fill(called, order) :
                  Commit(t, "handle_grid_order_fill")

FillNext == HandleGridOrderFill

SpecFill == FillInit /\ [][FillNext]_vars

\* C19: a grid fill whose owning account already holds a position is dropped:
\* the position, every level's positions_count, the working set and the
\* active orders stay as they were, and no order is placed or cancelled.
C19_GridFillOnBusyAccountDropped ==
    [][\A account \in Accounts :
          (/\ accounts[account].long_usdt_position # NoPosition
           /\ last_op'.op = "handle_grid_order_fill"
           /\ trace' # <<>>
           /\ trace'[1][2] = account) =>
              /\ accounts' = accounts
              /\ levels' = levels
              /\ long_queue' = long_queue
              /\ active_orders' = active_orders
              /\ order_account_mapping' = order_account_mapping
              /\ next_order_id' = next_order_id
              /\ Events(trace', "place_limit_order") = <<>>
              /\ Events(trace', "cancel_order") = <<>>
              /\ ~last_op'.raised]_vars

\* A grid fill was handled for an account that holds a position, and the
\* handler placed no order.
C19_Witness ==
    /\ last_op.op = "handle_grid_order_fill"
    /\ Len(trace) = 1
    /\ accounts[trace[1][2]].long_usdt_position # NoPosition

\* The position of a trace's first event of a kind; 0 when there is none.
FirstEvent(tr, kind) ==
    IF \E i \in DOMAIN tr : tr[i][1] = kind
    THEN CHOOSE i \in DOMAIN tr : tr[i][1] = kind /\ \A j \in 1..(i - 1) : tr[j][1] # kind
    ELSE 0

\* The state a handled close fill must leave for the account `a` whose
\* position the close order belonged to.
CloseFillFreedAccount(a) ==
    LET position == accounts[a].long_usdt_position
        price == position.level_price.n
        returned == FirstEvent(trace', "return_account_to_queue")
        acquired == FirstEvent(trace', "get_next_free_account")
    IN  /\ accounts'[a].long_usdt_position = NoPosition
        /\ accounts'[a].status = "FREE"
        /\ levels'[position.symbol][price].positions_count
               = levels[position.symbol][price].positions_count - 1
        /\ levels'[position.symbol][price].positions_count >= 0
        /\ levels'[position.symbol][price].is_active_long
        /\ returned # 0
        /\ trace'[returned] = <<"return_account_to_queue", a>>
        /\ acquired # 0 =>
               /\ returned < acquired
               /\ trace'[acquired][3] # NoAccount
               /\ trace'[acquired][3] # a => a \in Range(long_queue')

\* place_new_grid_order_on_level, called in any state of the engine for any
\* level, leaves that level active, whatever the current price is.
NewGridOrderActivatesLevel ==
    \A price \in LevelPrices("BTCUSDT") :
        \A t \in place_new_grid_order_on_level(EngineState, R(price), "BTCUSDT") :
            t.levels["BTCUSDT"][price].is_active_long

\* C20: after the fill of an open position's close order is handled, the
\* account holds no position and is FREE, the originating level's
\* positions_count has decreased by exactly 1 and is not negative, the level
\* is active whatever the current price, and the account was returned to the
\* working set before the account for a fresh grid order was acquired, so it
\* is itself eligible for that order.
C20_CloseFillFreesAccountAndLevel ==
    /\ []NewGridOrderActivatesLevel
    /\ [][\A i \in DOMAIN active_orders : \A a \in DOMAIN accounts :
             LET order == active_orders[i]
             IN  (/\ order.purpose = "close"
                  /\ accounts[a].long_usdt_position # NoPosition
                  /\ accounts[a].long_usdt_position.close_order_id = order.order_id
                  /\ OnlyFillDispatched(order)) => CloseFillFreedAccount(a)]_vars

\* A close fill was handled: the vacated level 90 is active and the freed
\* account was acquired again for the level's fresh grid order.
C20_Witness ==
    /\ last_op.op = "check_filled_orders"
    /\ Len(Events(trace, "handle_order_fill")) = 1
    /\ Events(trace, "handle_order_fill")[1][3] = "close"
    /\ levels["BTCUSDT"][90].is_active_long
    /\ levels["BTCUSDT"][90].positions_count = 0
    /\ \E i, j \in DOMAIN trace :
          /\ i < j
          /\ trace[i][1] = "return_account_to_queue"
          /\ trace[j][1] = "get_next_free_account"
          /\ trace[j][3] = trace[i][2]

\* The state a handled averaging fill must leave for the account `a` whose
\* position the averaging order belonged to.
AveragingFillReplacedClose(a) ==
    LET previous == accounts[a].long_usdt_position.close_order_id
        position == accounts'[a].long_usdt_position
    IN  /\ position # NoPosition
        /\ position.is_averaged
        /\ previous # NoOrderId =>
               /\ previous \notin ActiveIds(active_orders')
               /\ previous \notin DOMAIN order_account_mapping'
        /\ position.close_order_id # previous
        /\ \E i \in DOMAIN active_orders' :
               LET close == active_orders'[i]
               IN  /\ close.order_id = position.close_order_id
                   /\ close.purpose = "close"
                   /\ close.side = "Sell"
                   /\ close.account_id = a
                   /\ close.quantity = position.total_quantity
                   /\ close.price = position.average_entry_price

\* The polling cycle of this step dispatched only the fill of the averaging
\* order of account a's position.
AveragingFillOf(a) ==
    /\ accounts[a].long_usdt_position # NoPosition
    /\ \E i \in DOMAIN active_orders :
          /\ active_orders[i].purpose = "averaging"
          /\ active_orders[i].order_id = accounts[a].long_usdt_position.averaging_order_id
          /\ OnlyFillDispatched(active_orders[i])

\* C21: after an averaging fill is handled the position is marked averaged,
\* its previous close order is no longer tracked, and the close order in its
\* place is a Sell of the whole total_quantity at the new average entry
\* price, in either PROFIT_CLOSE_MODE.  Stated for the cycles in which the
\* exchange accepted every placement.
C21_AveragingFillReplacesClose ==
    [][\A a \in DOMAIN accounts :
          (/\ AveragingFillOf(a)
           /\ \A i \in DOMAIN trace' :
                 trace'[i][1] = "place_limit_order" => trace'[i][4] # NoOrderId)
              => AveragingFillReplacedClose(a)]_vars

\* C21 for the cycles in which, besides, no cancel request raised.
C21_AveragingFillReplacesCloseUnlessRefused ==
    [][\A a \in DOMAIN accounts :
          (/\ AveragingFillOf(a)
           /\ \A i \in DOMAIN trace' :
                 /\ trace'[i][1] = "cancel_order" => trace'[i][3] # "raise"
                 /\ trace'[i][1] = "place_limit_order" => trace'[i][4] # NoOrderId)
              => AveragingFillReplacedClose(a)]_vars

\* The lowest configured level strictly above a price, or 0.
LowestLevelAbove(symbol, price) ==
    LET above == {L \in Range(GRID_LEVELS[1]) : price.n > 0 /\ L * price.d > price.n}
    IN  IF above = {} THEN 0 ELSE CHOOSE L \in above : \A M \in above : L <= M

\* The price the first close order of a position must carry.
FirstClosePrice(position) ==
    IF PROFIT_CLOSE_MODE = "level" /\ LowestLevelAbove(position.symbol, position.entry_price) # 0
    THEN R(LowestLevelAbove(position.symbol, position.entry_price))
    ELSE position.average_entry_price

\* C22: the first close order of a position is priced, in mode "level", at
\* the lowest configured level strictly greater than the entry price, or at
\* the average entry price when there is no such level; in any other mode at
\* the average entry price.
C22_FirstClosePrice ==
    [][\A i \in DOMAIN active_orders :
          LET order == active_orders[i]
              position == accounts'[order.account_id].long_usdt_position
          IN  (/\ order.purpose = "grid"
               /\ accounts[order.account_id].long_usdt_position = NoPosition
               /\ OnlyFillDispatched(order)
               /\ position # NoPosition
               /\ position.close_order_id # NoOrderId) =>
                  \E j \in DOMAIN active_orders' :
                      /\ active_orders'[j].order_id = position.close_order_id
                      /\ active_orders'[j].purpose = "close"
                      /\ active_orders'[j].price = FirstClosePrice(position)]_vars

\* In mode "level" a position entered at 90 has its first close order at the
\* next level, 100.
C22_Witness ==
    /\ PROFIT_CLOSE_MODE = "level"
    /\ last_op.op = "check_filled_orders"
    /\ \E a \in DOMAIN accounts : \E j \in DOMAIN active_orders :
          /\ accounts[a].long_usdt_position # NoPosition
          /\ accounts[a].long_usdt_position.entry_price = R(90)
          /\ ~accounts[a].long_usdt_position.is_averaged
          /\ active_orders[j].order_id = accounts[a].long_usdt_position.close_order_id
          /\ active_orders[j].price = R(100)

\* The balance place_averaging_order requires for the averaging order of a
\* position opened by `order`: the averaging volume divided by the leverage
\* of the zone at the averaging target price.
RequiredAveragingBalance(order) ==
    LET target == RatMul(order.price, Rat(100 - AVERAGING_PRICE_DROP_PERCENT, 100))
        volume == RatMul(RatMul(order.quantity, order.price), R(AVERAGING_MULTIPLIER - 1))
        leverage == IF target.n <= 95 * target.d THEN OVERSOLD_ZONE_LEVERAGE
                    ELSE IF target.n >= 105 * target.d THEN OVERBOUGHT_ZONE_LEVERAGE
                    ELSE NEUTRAL_ZONE_LEVERAGE
    IN  RatDiv(volume, R(leverage))

\* The capacity check of this step's cycle answered false, or the account's
\* cached balance is below the required balance.
AveragingNotFunded(order) ==
    \/ <<"can_place_order_on_account_with_position", order.account_id, "False">> \in Range(trace')
    \/ RatLT(R(accounts[order.account_id].balance), RequiredAveragingBalance(order))

\* C23: when the capacity check answers false or the cached balance is below
\* the required balance, place_averaging_order places no order, leaves
\* averaging_order_id unset, sets averaging_failed_insufficient_balance and
\* records the current ROI in percent; the position stays open with its
\* close order.  Observed on the grid fills handled for an account without
\* position, whose handler calls place_averaging_order for the new position.
C23_AveragingNotFunded ==
    [][\A a \in Accounts : \A level \in LevelPrices("BTCUSDT") :
          LET order == FilledGridOrder(a, level)
              position == accounts'[a].long_usdt_position
              price == current_prices[order.symbol]
          IN  (/\ accounts[a].long_usdt_position = NoPosition
               /\ last_op' = [op |-> "handle_grid_order_fill", raised |-> FALSE]
               /\ trace' # <<>>
               /\ trace'[1] = <<"handle_grid_order_fill", a, level>>
               /\ AveragingNotFunded(order)) =>
                  /\ \A j \in DOMAIN trace' :
                         trace'[j][1] = "place_limit_order" => trace'[j][3] # "averaging"
                  /\ position # NoPosition
                  /\ position.averaging_order_id = NoOrderId
                  /\ position.averaging_failed_insufficient_balance
                  /\ position.last_averaging_alert_roi
                         = Rat(100 * (price * order.price.d - order.price.n), order.price.n)
                  /\ \A j \in DOMAIN trace' :
                         (trace'[j][1] = "place_limit_order" /\ trace'[j][3] = "close"
                              /\ trace'[j][4] # NoOrderId) =>
                             /\ position.close_order_id = trace'[j][4]
                             /\ trace'[j][4] \in ActiveIds(active_orders')]_vars

\* The capacity check answered true but the balance 0 is below the required
\* balance: the position is open with its close order and marked as not
\* averaged for lack of balance.
C23_Witness ==
    /\ last_op = [op |-> "handle_grid_order_fill", raised |-> FALSE]
    /\ \E a \in DOMAIN accounts :
          /\ <<"can_place_order_on_account_with_position", a, "True">> \in Range(trace)
          /\ accounts[a].balance = 0
          /\ accounts[a].long_usdt_position # NoPosition
          /\ accounts[a].long_usdt_position.averaging_failed_insufficient_balance
          /\ accounts[a].long_usdt_position.close_order_id \in ActiveIds(active_orders)

(***************************************************************************)
(* LevelManager.check_nearest_level_activation called on its own, in       *)
(* engine states where each account is free, owns a grid order on a level  *)
(* or holds a position on a level, with a price and an occupancy predicate *)
(* chosen by the caller.                                                   *)
(***************************************************************************)
\* A scan that keeps the lowest level below current_price.
nearest_level_below_lowest(symbol, current_price) ==
    LET below == {p \in LevelPrices(symbol) : RatLT(R(p), current_price)}
    IN  IF below = {} THEN 0 ELSE CHOOSE p \in below : \A q \in below : p <= q

\* The loop over the levels: the level below current_price at the smallest
\* distance, 0 when no level lies below.
nearest_level_below(symbol, current_price) ==
    LET below == {p \in LevelPrices(symbol) : RatLT(R(p), current_price)}
    IN  IF below = {} THEN 0
        ELSE CHOOSE p \in below :
                 \A q \in below : RatLE(RatSub(current_price, R(p)), RatSub(current_price, R(q)))

\* any(o.purpose == "grid" and o.level_price and abs(o.level_price - nearest) < 0.01)
has_grid_order_near(orders, nearest_price) ==
    \E i \in DOMAIN orders :
        /\ orders[i].purpose = "grid"
        /\ orders[i].level_price # 0
        /\ RatLT(RatAbs(RatSub(R(orders[i].level_price), R(nearest_price))), Rat(1, 100))

\* The levels it leaves and the price it returns (0: None); `occupied` is the
\* set of level prices for which is_level_occupied answers true.
check_nearest_level_activation(lv, orders, symbol, current_price, occupied) ==
    LET nearest_price == nearest_level_below(symbol, current_price)
        none == [levels |-> lv, ret |-> 0]
    IN  IF nearest_price = 0 THEN none
        ELSE IF ~check_activation_threshold(lv[symbol][nearest_price], current_price,
                                            LEVEL_ACTIVATION_THRESHOLD) THEN none
        ELSE IF \/ has_grid_order_near(orders, nearest_price)
                \/ lv[symbol][nearest_price].positions_count >= lv[symbol][nearest_price].max_positions
                \/ nearest_price \in occupied THEN none
        ELSE [levels |-> [lv EXCEPT ![symbol][nearest_price].is_active_long = TRUE],
              ret |-> nearest_price]

\* What an account is doing: nothing, waiting for a grid order on a level,
\* or holding a position entered on a level.
Situations == {<<"free", 0>>} \cup ({"grid", "position"} \X LevelPrices("BTCUSDT"))

NearestPrices == {R(85), R(90), Rat(181, 2), Rat(909, 10), R(95), R(100), Rat(201, 2), R(101), R(105)}

NearestInit ==
    /\ \E sit \in [Accounts -> Situations], active \in [LevelPrices("BTCUSDT") -> BOOLEAN] :
          LET owners == SelectSeq(ACCOUNT_IDS, LAMBDA a : sit[a][1] = "grid")
              quantity(a) == calculate_quantity_from_usdt(
                                 R(get_level_config("BTCUSDT", R(sit[a][2])).volume_usdt),
                                 R(sit[a][2]))
          IN  /\ accounts = [a \in Accounts |->
                    IF sit[a][1] = "position"
                    THEN Account_open_position([TradingAccount(a) EXCEPT !.balance = 100],
                             Position("BTCUSDT", quantity(a), R(sit[a][2]), R(sit[a][2])))
                    ELSE [TradingAccount(a) EXCEPT !.balance = 100]]
              /\ long_queue = SelectSeq(ACCOUNT_IDS, LAMBDA a : sit[a][1] = "free")
              /\ levels = [LevelManager_levels EXCEPT !["BTCUSDT"] =
                    [price \in LevelPrices("BTCUSDT") |->
                        [GridLevel(price) EXCEPT
                            !.is_active_long = active[price],
                            !.positions_count =
                                Cardinality({a \in Accounts : sit[a] = <<"position", price>>})]]]
              /\ active_orders =
                    [i \in DOMAIN owners |->
                        [Order(i, "BTCUSDT", "Buy", "Limit", quantity(owners[i]),
                               R(sit[owners[i]][2]), "grid", owners[i])
                            EXCEPT !.level_price = sit[owners[i]][2]]]
              /\ order_account_mapping = [i \in DOMAIN owners |-> owners[i]]
              /\ next_order_id = Len(owners) + 1
    /\ current_prices = [symbol \in Symbols |-> 95]
    /\ exchange_manager = TRUE
    /\ PROFIT_CLOSE_MODE = "level"
    /\ folded = [a \in Accounts |-> <<>>]
    /\ last_op = [op |-> "check_filled_orders", raised |-> FALSE]
    /\ trace = <<>>
    /\ MainConstructed
    /\ NoRequest
    /\ call \in {<<"check_nearest_level_activation", "BTCUSDT", p, occupied>> :
                    p \in NearestPrices, occupied \in SUBSET LevelPrices("BTCUSDT")}
    /\ result = <<>>

CheckNearestLevelActivation ==
    /\ call[1] = "check_nearest_level_activation"
    /\ result = <<>>
    /\ LET out == check_nearest_level_activation(levels, active_orders, call[2], call[3], call[4])
       IN  /\ levels' = out.levels
           /\ result' = <<out.ret>>
    /\ UNCHANGED <<accounts, long_queue, current_prices, active_orders, order_account_mapping,
                   exchange_manager, PROFIT_CLOSE_MODE, next_order_id, folded, last_op, trace,
                   main_vars, webhook_vars, call>>

NearestNext == CheckNearestLevelActivation

SpecNearest == NearestInit /\ [][NearestNext]_vars

\* The level the claim lets check_nearest_level_activation return for the
\* price p and the occupied levels occ, 0 for None: the level below p that
\* is nearest to p, when it is eligible.
NearestEligible(p, occ) ==
    LET below == {L \in {90, 100} : L * p.d < p.n}
        nearest == CHOOSE L \in below : \A M \in below : M <= L
    IN  IF below = {} THEN 0
        ELSE IF /\ 100 * Abs(p.n - nearest * p.d) >= nearest * p.d
                /\ ~\E i \in DOMAIN active_orders :
                       active_orders[i].purpose = "grid" /\ active_orders[i].level_price = nearest
                /\ levels["BTCUSDT"][nearest].positions_count
                       < levels["BTCUSDT"][nearest].max_positions
                /\ nearest \notin occ
             THEN nearest
             ELSE 0

\* C24: check_nearest_level_activation returns the level nearest below the
\* price exactly when that level passes the threshold check, has no active
\* grid order, has open capacity and is not occupied, and None otherwise
\* (never a farther level); it sets the active flag of the returned level
\* and changes nothing else of any level.
C24_NearestLevelActivation ==
    [][(call[1] = "check_nearest_level_activation" /\ result = <<>> /\ result' # <<>>) =>
          LET returned == NearestEligible(call[3], call[4])
          IN  /\ result' = <<returned>>
              /\ \A L \in DOMAIN levels["BTCUSDT"] :
                     levels'["BTCUSDT"][L] =
                         IF L = returned
                         THEN [levels["BTCUSDT"][L] EXCEPT !.is_active_long = TRUE]
                         ELSE levels["BTCUSDT"][L]]_vars

\* At price 100.5 the nearest level 100 fails the threshold check: None is
\* returned although the free level 90 lies below, and 90 stays inactive.
C24_Witness ==
    /\ call[1] = "check_nearest_level_activation"
    /\ call[3] = Rat(201, 2)
    /\ result = <<0>>
    /\ active_orders = <<>>
    /\ levels["BTCUSDT"][90].positions_count = 0
    /\ ~levels["BTCUSDT"][90].is_active_long


(***************************************************************************)
(* GridEngine.place_order_with_usdt_volume called on its own               *)
(***************************************************************************)
MaxQuantityPrice == 120
FarPrice == 250000
QuantityPrices == (1 .. MaxQuantityPrice) \cup {FarPrice}
QuantityVolumes ==
    {v * m : v \in {OVERSOLD_ZONE_VOLUME_USDT, NEUTRAL_ZONE_VOLUME_USDT, OVERBOUGHT_ZONE_VOLUME_USDT},
             m \in {1, AVERAGING_MULTIPLIER}}

\* Every quotient volume / price of these sets that lies halfway between two
\* multiples of 0.001 is a binary fraction (50 / 32, 100 / 64, 180 / 64), so
\* the float holds it exactly and "{:.3f}" rounds it half to even, as Round3.
QuantityInit ==
    /\ accounts = AccountQueue_accounts
    /\ long_queue = AccountQueue_long_queue
    /\ levels = LevelManager_levels
    /\ current_prices = [symbol \in Symbols |-> 0]
    /\ active_orders = <<>>
    /\ order_account_mapping = EmptyMap
    /\ exchange_manager = TRUE
    /\ PROFIT_CLOSE_MODE = "level"
    /\ next_order_id = 1
    /\ folded = [a \in Accounts |-> <<>>]
    /\ last_op = [op |-> "set_exchange_manager", raised |-> FALSE]
    /\ trace = <<>>
    /\ MainConstructed
    /\ NoRequest
    /\ call \in {<<"place_order_with_usdt_volume", usdt_volume, price>> :
                    usdt_volume \in QuantityVolumes, price \in QuantityPrices}
    /\ result = <<>>

PlaceOrderWithUsdtVolume ==
    /\ last_op.op = "set_exchange_manager"
    /\ \E t \in place_order_with_usdt_volume(EngineState, ACCOUNT_IDS[1], "BTCUSDT", "Buy",
                                             R(call[2]), R(call[3]), "grid", call[3]) :
          Commit(t, "place_order_with_usdt_volume")

QuantityNext == PlaceOrderWithUsdtVolume

SpecQuantity == QuantityInit /\ [][QuantityNext]_vars

\* volume / price cut off after three decimals.
Truncated3(usdt_volume, price) == Rat((usdt_volume * 1000) \div price, 1000)

PlacementAttempted ==
    \E i \in DOMAIN trace : trace[i][1] = "place_limit_order"

\* C25: the quantity of an order sized from a notional volume is
\* volume / price truncated to three decimals, so that quantity * price never
\* exceeds volume, and a quantity <= 0 places no order.
C25_QuantityTruncated ==
    last_op.op = "place_order_with_usdt_volume" =>
        LET usdt_volume == call[2]
            price == call[3]
        IN  /\ \A i \in DOMAIN active_orders :
                  /\ active_orders[i].quantity = Truncated3(usdt_volume, price)
                  /\ RatLE(RatMul(active_orders[i].quantity, active_orders[i].price),
                           R(usdt_volume))
            /\ RatLE(Truncated3(usdt_volume, price), R(0)) => ~PlacementAttempted

\* C25, as the code sizes an order: the quantity is volume / price rounded
\* to the nearest multiple of 0.001, it differs from volume / price by at
\* most 0.0005, and a quantity <= 0 places no order.
C25_QuantityRounded ==
    last_op.op = "place_order_with_usdt_volume" =>
        LET usdt_volume == R(call[2])
            price == R(call[3])
            quantity == Round3(RatDiv(usdt_volume, price))
        IN  /\ RatLE(RatAbs(RatSub(quantity, RatDiv(usdt_volume, price))), Rat(1, 2000))
            /\ \A i \in DOMAIN active_orders : active_orders[i].quantity = quantity
            /\ PlacementAttempted <=> RatLT(R(0), quantity)

\* The order of 100 USDT at price 60 was placed: 1.667 * 60 = 100.02.
C25_Witness ==
    /\ call = <<"place_order_with_usdt_volume", 100, 60>>
    /\ Len(active_orders) = 1
    /\ active_orders[1].quantity = Rat(1667, 1000)


\* The polling cycle of this step found both the close order and the
\* averaging order of account a's position Filled and dispatched both.
CloseAndAveragingFilled(a) ==
    LET position == accounts[a].long_usdt_position
    IN  /\ position # NoPosition
        /\ position.close_order_id \in ActiveIds(active_orders)
        /\ position.averaging_order_id \in ActiveIds(active_orders)
        /\ last_op' = [op |-> "check_filled_orders", raised |-> FALSE]
        /\ \E i, j \in DOMAIN trace' :
              /\ trace'[i] = <<"handle_order_fill", position.close_order_id, "close">>
              /\ trace'[j] = <<"handle_order_fill", position.averaging_order_id, "averaging">>

\* No account was drawn from the working set again during the step.
AcquiredAgain(a) ==
    \E i \in DOMAIN trace' :
        trace'[i][1] = "get_next_free_account" /\ trace'[i][3] = a

\* The position is detached, the account is FREE and in the working set, and
\* neither order id is tracked any more.
PositionSettled(a) ==
    LET position == accounts[a].long_usdt_position
        ids == {position.close_order_id, position.averaging_order_id}
    IN  /\ accounts'[a].long_usdt_position = NoPosition
        /\ accounts'[a].status = "FREE"
        /\ a \in Range(long_queue')
        /\ ids \cap ActiveIds(active_orders') = {}
        /\ ids \cap DOMAIN order_account_mapping' = {}

\* C26: when the close order and the averaging order of one position are
\* both found Filled in the same polling cycle, afterwards the position is
\* detached, the account is FREE and in the working set, and neither order
\* id is left in active_orders or order_account_mapping.  Stated for the
\* cycles that did not draw the freed account again for a fresh grid order.
C26_CloseAndAveragingFilledTogether ==
    [][\A a \in DOMAIN accounts :
          (CloseAndAveragingFilled(a) /\ ~AcquiredAgain(a)) => PositionSettled(a)]_vars

\* C26 for the cycles in which, besides, no cancel request raised.
C26_CloseAndAveragingFilledTogetherUnlessRaised ==
    [][\A a \in DOMAIN accounts :
          (/\ CloseAndAveragingFilled(a)
           /\ ~AcquiredAgain(a)
           /\ \A i \in DOMAIN trace' :
                 trace'[i][1] = "cancel_order" => trace'[i][3] # "raise")
              => PositionSettled(a)]_vars


\* The number of pending grid orders an account owns.
GridOrdersOf(a) ==
    Cardinality({i \in DOMAIN active_orders :
                    active_orders[i].purpose = "grid" /\ active_orders[i].account_id = a})

\* The places an account can be: in the working set with no position, owner
\* of exactly one pending grid order, holder of a position.
PlacesOf(a) ==
    (IF a \in Range(long_queue) /\ accounts[a].long_usdt_position = NoPosition
     THEN {"working set"} ELSE {})
    \cup (IF GridOrdersOf(a) = 1 THEN {"grid order"} ELSE {})
    \cup (IF accounts[a].long_usdt_position # NoPosition THEN {"position"} ELSE {})

\* C27: no account is lost from circulation: every account is in exactly
\* one of three places, the working set (with no position), ownership of
\* exactly one pending grid order, or a position; this includes the account
\* that replace_grid_order, place_new_grid_order_on_level or a placement
\* cycle acquired when the placement then yields no order.  Stated for the
\* states in which the last operation returned normally.
C27_AccountsInCirculation ==
    ~last_op.raised => \A a \in DOMAIN accounts : Cardinality(PlacesOf(a)) = 1

\* C27 for the fill handlers alone: a polling cycle that starts with every
\* account in circulation and returns normally ends with every account in
\* circulation.
C27_FillHandlingKeepsCirculation ==
    [][(/\ last_op' = [op |-> "check_filled_orders", raised |-> FALSE]
        /\ \A a \in DOMAIN accounts : Cardinality(PlacesOf(a)) = 1)
          => \A a \in DOMAIN accounts : Cardinality(PlacesOf(a))' = 1]_vars


\* Every account that owns a pending grid order holds no position and is not
\* in the working set.
GridOrderOwnersIdle ==
    \A i \in DOMAIN active_orders :
        active_orders[i].purpose = "grid" =>
            /\ accounts[active_orders[i].account_id].long_usdt_position = NoPosition
            /\ active_orders[i].account_id \notin Range(long_queue)

\* Every grid fill dispatched in the step went on to place the close order
\* of the position it opened: none was dropped.
NoGridFillDropped ==
    \A i \in DOMAIN trace' :
        (trace'[i][1] = "handle_order_fill" /\ trace'[i][3] = "grid") =>
            /\ i < Len(trace')
            /\ trace'[i + 1][1] = "place_limit_order"
            /\ trace'[i + 1][3] = "close"

\* C28: the defensive drop branch of the grid-fill handler is unreachable:
\* in every reachable state an account that owns a pending grid order holds
\* no position and is not in the working set, and no polling cycle
\* dispatches a grid fill for an account that already holds a position.
C28_DropBranchUnreachable ==
    /\ []GridOrderOwnersIdle
    /\ [][last_op'.op = "check_filled_orders" => NoGridFillDropped]_vars

\* A polling cycle handled a grid fill and the level's replacement grid
\* order rests on another account.
C28_Witness ==
    /\ last_op = [op |-> "check_filled_orders", raised |-> FALSE]
    /\ \E i \in DOMAIN trace : trace[i][1] = "handle_order_fill" /\ trace[i][3] = "grid"
    /\ \E i \in DOMAIN active_orders : active_orders[i].purpose = "grid"
    /\ \E a \in DOMAIN accounts : accounts[a].long_usdt_position # NoPosition


\* The accounts holding a position opened on a level.
PositionsOnLevel(symbol, price) ==
    {a \in DOMAIN accounts :
        /\ accounts[a].long_usdt_position # NoPosition
        /\ accounts[a].long_usdt_position.symbol = symbol
        /\ accounts[a].long_usdt_position.level_price = R(price)}

\* C29: in every reachable state each level's positions_count equals the
\* number of accounts holding a position whose level_price is that level on
\* that symbol.
C29_PositionsCountMatchesPositions ==
    \A symbol \in Symbols : \A price \in LevelPrices(symbol) :
        levels[symbol][price].positions_count = Cardinality(PositionsOnLevel(symbol, price))

\* Both accounts hold a position on level 90 and the level counts 2.
C29_Witness ==
    /\ Cardinality(PositionsOnLevel("BTCUSDT", 90)) = 2
    /\ levels["BTCUSDT"][90].positions_count = 2


\* The pending grid orders resting on a level.
GridOrdersOn(symbol, price) ==
    {i \in DOMAIN active_orders :
        /\ active_orders[i].purpose = "grid"
        /\ active_orders[i].symbol = symbol
        /\ active_orders[i].level_price = price}

\* C30: for every level the number of pending grid orders targeting it plus
\* its positions_count never exceeds its max_positions.
C30_GridOrdersWithinCapacity ==
    \A symbol \in Symbols : \A price \in LevelPrices(symbol) :
        Cardinality(GridOrdersOn(symbol, price)) + levels[symbol][price].positions_count
            <= levels[symbol][price].max_positions

\* C30 for the fill handlers alone: a polling cycle that starts within
\* capacity on every level ends within capacity on every level.
C30_FillHandlingWithinCapacity ==
    [][(last_op'.op = "check_filled_orders" /\ C30_GridOrdersWithinCapacity)
          => C30_GridOrdersWithinCapacity']_vars


\* Every tracked order is PENDING.
ActiveOrdersPending ==
    \A i \in DOMAIN active_orders : active_orders[i].status = "Pending"

\* The orders the step found Filled, and the orders whose cancellation it
\* requested through cancel_and_cleanup_order without the request raising.
FilledOrCancelled ==
    {trace'[i][2] : i \in {j \in DOMAIN trace' :
        \/ trace'[j][1] = "check_order_status" /\ trace'[j][3] = "Filled"
        \/ trace'[j][1] = "cancel_order" /\ trace'[j][3] # "raise"}}

\* C31: between operations every order in active_orders has status PENDING:
\* an order that was marked filled, or whose cancellation was requested
\* through cancel_and_cleanup_order and did not raise, is no longer in
\* active_orders.
C31_ActiveOrdersPending ==
    /\ []ActiveOrdersPending
    /\ [][FilledOrCancelled \cap ActiveIds(active_orders') = {}]_vars

\* A polling cycle found an order Filled and had a cancellation accepted
\* while another order stays tracked.
C31_Witness ==
    /\ last_op.op = "check_filled_orders"
    /\ \E i \in DOMAIN trace : trace[i][1] = "check_order_status" /\ trace[i][3] = "Filled"
    /\ \E i \in DOMAIN trace : trace[i][1] = "cancel_order" /\ trace[i][3] = "True"
    /\ active_orders # <<>>


\* The tracked close orders an account owns.
CloseOrdersOf(a) ==
    {i \in DOMAIN active_orders :
        active_orders[i].purpose = "close" /\ active_orders[i].account_id = a}

\* The close order a position names is tracked, and it is the only close
\* order its account has.
CloseOrderTracked(a) ==
    LET position == accounts[a].long_usdt_position
    IN  /\ (position # NoPosition /\ position.close_order_id # NoOrderId) =>
               \E i \in CloseOrdersOf(a) : active_orders[i].order_id = position.close_order_id
        /\ Cardinality(CloseOrdersOf(a)) <= 1

\* C32: between operations, for every open position, close_order_id (when
\* set) is the id of a tracked order of purpose close owned by the
\* position's account, and at most one close order per account is tracked,
\* also after an averaging fill whose cancel request or replacement close
\* placement fails.  Stated for the states in which the last operation
\* returned normally.
C32_CloseOrderTracked ==
    ~last_op.raised => \A a \in DOMAIN accounts : CloseOrderTracked(a)

\* C32 for the steps in which no cancel request raised and the exchange
\* accepted every placement.
C32_CloseOrderTrackedUnlessRefused ==
    [][(/\ ~last_op'.raised
        /\ \A a \in DOMAIN accounts : CloseOrderTracked(a)
        /\ \A i \in DOMAIN trace' :
              /\ trace'[i][1] = "cancel_order" => trace'[i][3] # "raise"
              /\ trace'[i][1] = "place_limit_order" => trace'[i][4] # NoOrderId)
          => \A a \in DOMAIN accounts : CloseOrderTracked(a)']_vars

=============================================================================
